---- MODULE Spec2Model ----
(***************************************************************************)
(* ChronoRAG: the versioned chunk store (storage/pvdb/dao.py), the time-   *)
(* window algebra (app/utils/time_windows.py), score fusion                *)
(* (app/utils/fusion.py), the hop controller (core/dhqc/controller.py),    *)
(* the chrono-reducer (app/utils/chrono_reducer.py) and the retrieval      *)
(* service (app/services/retrieve_service.py).                             *)
(*                                                                         *)
(* Time stamps are integers: whole days on the UTC axis, so that           *)
(* total_seconds() / 86400.0 is the difference of two stamps.  Scores,     *)
(* weights and thresholds are exact rationals [n, d] in lowest terms.      *)
(***************************************************************************)
EXTENDS Integers, Sequences, FiniteSets, TLC

VARIABLES chunks, documents, ann_index, dirty, counter, disk, last_op, probe

vars == <<chunks, documents, ann_index, dirty, counter, disk, last_op, probe>>
storeVars == <<chunks, documents, ann_index, dirty, counter, disk, last_op>>

(***************************************************************************)
(* Bounds of the model.                                                    *)
(***************************************************************************)
\* ingest_document calls per store lifetime (the counter is capped here)
MaxChunks == 2

\* Python's None for optional strings
NoneStr == "<None>"
\* Python's None for optional TimeWindow values: the empty tuple; a present
\* window w is <<w>>
NoWindow == << >>
EmptyMap == [k \in {} |-> 0]
\* no pure function has been called yet
NoProbe == [fn |-> "none"]

\* a list comprehension, built once
AsList(f) == f \o << >>

\* a local: v is computed once and F sees its value
Then(v, F(_)) == CHOOSE r \in {F(x) : x \in {v}} : TRUE

Max2(a, b) == IF a >= b THEN a ELSE b
Min2(a, b) == IF a <= b THEN a ELSE b
Abs(a) == IF a >= 0 THEN a ELSE 0 - a

(***************************************************************************)
(* Exact rational arithmetic for the float-valued scores                   *)
(***************************************************************************)
RECURSIVE GCD(_, _)
GCD(a, b) == IF b = 0 THEN a ELSE GCD(b, a % b)

LCM(a, b) == (a \div GCD(a, b)) * b

\* the rational n/d (d > 0) in lowest terms
Rat(n, d) == LET g == GCD(Abs(n), d) IN [n |-> n \div g, d |-> d \div g]

Zero == Rat(0, 1)
One == Rat(1, 1)

RAdd(a, b) == LET l == LCM(a.d, b.d) IN Rat(a.n * (l \div a.d) + b.n * (l \div b.d), l)
RSub(a, b) == LET l == LCM(a.d, b.d) IN Rat(a.n * (l \div a.d) - b.n * (l \div b.d), l)
RMul(a, b) == LET x == Rat(a.n, b.d)
                  y == Rat(b.n, a.d)
              IN [n |-> x.n * y.n, d |-> x.d * y.d]
RLe(a, b) == LET l == LCM(a.d, b.d) IN a.n * (l \div a.d) <= b.n * (l \div b.d)
RLt(a, b) == ~RLe(b, a)
RMax(a, b) == IF RLe(b, a) THEN a ELSE b
RMin(a, b) == IF RLe(a, b) THEN a ELSE b

(***************************************************************************)
(* app/utils/time_windows.py                                               *)
(***************************************************************************)
TimeWindow(s, e) == [start |-> s, end |-> e]

\* a window built from the bounds in the order given
make_window_unordered(s, e) == TimeWindow(s, e)

\* make_window: swap the bounds when start > end
make_window(s, e) == IF s > e THEN TimeWindow(e, s) ELSE TimeWindow(s, e)

\* a duration that is not floored at 0
duration_signed(w) == w.end - w.start

\* TimeWindow.duration: seconds, floored at 0
duration(w) == Max2(0, w.end - w.start)

\* TimeWindow.intersects
intersects(a, b) == ~(a.end <= b.start \/ b.end <= a.start)

\* TimeWindow.intersection: NoWindow when disjoint
intersection(a, b) ==
    IF ~intersects(a, b) THEN NoWindow
    ELSE <<TimeWindow(Max2(a.start, b.start), Min2(a.end, b.end))>>

\* a mask that lets every candidate through
hard_mode_pre_mask_open(candidate_window, query_window) == TRUE

hard_mode_pre_mask(candidate_window, query_window) ==
    intersects(candidate_window, query_window)

\* the larger distance between facing edges of two windows
gap_days_farthest(a, b) == Max2(Abs(a.start - b.end), Abs(b.start - a.end))

\* the smaller distance between facing edges of two windows, in days
gap_days(a, b) == Min2(Abs(a.start - b.end), Abs(b.start - a.end))

\* intelligent_decay: 1.0 when overlapping, else max(0, 1 / (1 + days))
intelligent_decay(candidate_window, query_window) ==
    IF intersects(candidate_window, query_window) THEN One
    ELSE RMax(Zero, Rat(1, 1 + gap_days(candidate_window, query_window)))

\* tx_mismatch_penalty: tx_window is << >> when absent
tx_mismatch_penalty(valid_window, tx_window) ==
    IF tx_window = NoWindow THEN Zero
    ELSE IF intersects(valid_window, tx_window[1]) THEN Zero ELSE One

(***************************************************************************)
(* storage/pvdb/dao.py: chunk ids                                          *)
(***************************************************************************)
RECURSIVE Digits(_)
Digits(n) == IF n < 10 THEN <<n>> ELSE Append(Digits(n \div 10), n % 10)

RECURSIVE ZeroPad(_, _)
ZeroPad(s, width) == IF Len(s) < width THEN ZeroPad(<<0>> \o s, width) ELSE s

\* f"{n:05d}"
Format05d(n) == ZeroPad(Digits(n), 5)

RECURSIVE ParseInt(_)
\* int(suffix) of a string of decimal digits
ParseInt(s) == IF Len(s) = 0 THEN 0
               ELSE 10 * ParseInt(SubSeq(s, 1, Len(s) - 1)) + s[Len(s)]

\* a counter that is not advanced by an allocation
AdvanceCounterStuck(c) == c

\* the counter after one allocation (self._counter += 1)
AdvanceCounter(c) == c + 1

\* _next_chunk_id: f"{doc_id}:chunk:{self._counter:05d}"; the id is the pair
\* of the text before ":chunk:" and the digit string after it
ChunkIdOf(doc_id, c) == [doc |-> doc_id, suffix |-> Format05d(c)]

\* a load that leaves the counter where the constructor put it
BumpCounterSkipped(c, chunk_id) == c

\* _bump_counter: counter = max(counter, int(chunk_id.split(":")[-1]) + 1)
BumpCounter(c, chunk_id) == Max2(c, ParseInt(chunk_id.suffix) + 1)

\* _default_doc_id: f"doc:{abs(hash(uri))}", a function of the uri
DefaultDocId(uri) == "doc:" \o uri

(***************************************************************************)
(* Inputs of ingest_document.  Windows are built by make_window in the     *)
(* ingest service, so they are well ordered.                               *)
(***************************************************************************)
DocIds == {"d1", "d2"}

IngestInputs ==
    { [text |-> "gdp 1870", uri |-> "u1", doc_id |-> "d1",
       valid_window |-> make_window(0, 2), tx_window |-> <<make_window(0, 4)>>,
       authority |-> Rat(4, 5), external_id |-> "e1", version_id |-> NoneStr,
       units |-> {"intl_1990_usd"}, region |-> "Europe"],
      [text |-> "gdp 1870 revised", uri |-> "u1", doc_id |-> "d1",
       valid_window |-> make_window(0, 2), tx_window |-> <<make_window(2, 4)>>,
       authority |-> Rat(4, 5), external_id |-> "e1", version_id |-> "r2",
       units |-> {"intl_1990_usd"}, region |-> "Europe"],
      [text |-> "gdp 1870 late", uri |-> "u2", doc_id |-> "d1",
       valid_window |-> make_window(1, 3), tx_window |-> <<make_window(4, 4)>>,
       authority |-> Rat(1, 2), external_id |-> "e1", version_id |-> NoneStr,
       units |-> {"percent"}, region |-> "Europe"],
      [text |-> "ceo today", uri |-> "u2", doc_id |-> NoneStr,
       valid_window |-> make_window(3, 4), tx_window |-> NoWindow,
       authority |-> Rat(1, 2), external_id |-> NoneStr, version_id |-> NoneStr,
       units |-> {"n/a"}, region |-> NoneStr],
      [text |-> "ceo today", uri |-> "u3", doc_id |-> "d2",
       valid_window |-> make_window(3, 3), tx_window |-> <<make_window(1, 2)>>,
       authority |-> Rat(1, 5), external_id |-> "e2", version_id |-> NoneStr,
       units |-> {"ratio"}, region |-> "Asia"] }

\* the updates _handle_ledger builds from a ledger row
MetadataUpdates ==
    { [k \in {"page_title"} |-> "title"], [k \in {"revision_id"} |-> "rev-1"] }

(***************************************************************************)
(* storage/pvdb/dao.py: records and snapshot conversion                    *)
(***************************************************************************)
DocumentRecord(doc_id) == [doc_id |-> doc_id, metadata |-> EmptyMap, chunk_ids |-> << >>]

\* ChunkRecord built by ingest_document
ChunkRecord(chunk_id, doc_id, inp) ==
    [chunk_id |-> chunk_id, doc_id |-> doc_id, text |-> inp.text, uri |-> inp.uri,
     valid_window |-> inp.valid_window, tx_window |-> inp.tx_window,
     authority |-> inp.authority, external_id |-> inp.external_id,
     version_id |-> inp.version_id, units |-> inp.units, region |-> inp.region]

\* ChunkRecord.to_dict: windows are written as {"from", "to"} pairs, a
\* missing tx_window as null
WindowToDict(w) == [from |-> w.start, to |-> w.end]

ChunkToDict(c) ==
    [chunk_id |-> c.chunk_id, doc_id |-> c.doc_id, text |-> c.text, uri |-> c.uri,
     valid_window |-> WindowToDict(c.valid_window),
     tx_window |-> IF c.tx_window = NoWindow THEN NoWindow
                   ELSE <<WindowToDict(c.tx_window[1])>>,
     authority |-> c.authority, external_id |-> c.external_id,
     version_id |-> c.version_id, units |-> c.units, region |-> c.region]

\* a from_dict that takes no tx_window from the payload
ChunkFromDictNoTx(p) ==
    [chunk_id |-> p.chunk_id, doc_id |-> p.doc_id, text |-> p.text, uri |-> p.uri,
     valid_window |-> make_window(p.valid_window.from, p.valid_window.to),
     tx_window |-> NoWindow,
     authority |-> p.authority, external_id |-> p.external_id,
     version_id |-> p.version_id, units |-> p.units, region |-> p.region]

\* ChunkRecord.from_dict: windows are rebuilt with make_window
ChunkFromDict(p) ==
    [chunk_id |-> p.chunk_id, doc_id |-> p.doc_id, text |-> p.text, uri |-> p.uri,
     valid_window |-> make_window(p.valid_window.from, p.valid_window.to),
     tx_window |-> IF p.tx_window = NoWindow THEN NoWindow
                   ELSE <<make_window(p.tx_window[1].from, p.tx_window[1].to)>>,
     authority |-> p.authority, external_id |-> p.external_id,
     version_id |-> p.version_id, units |-> p.units, region |-> p.region]

\* DocumentRecord.to_dict / from_dict
DocToDict(d) == [doc_id |-> d.doc_id, metadata |-> d.metadata, chunk_ids |-> d.chunk_ids]
DocFromDict(p) == [doc_id |-> p.doc_id, metadata |-> p.metadata, chunk_ids |-> p.chunk_ids]

\* The payload flush writes.  The two arrays are sorted by id and ids are
\* unique keys of the maps they come from, so each array is given as the set
\* of its elements.
SnapshotOf(chs, docs) ==
    [chunks |-> {ChunkToDict(chs[id]) : id \in DOMAIN chs},
     documents |-> {DocToDict(docs[d]) : d \in DOMAIN docs}]

NoFile == [absent |-> TRUE]

RECURSIVE BumpAll(_, _)
\* _load's loop over the persisted chunks: every id bumps the counter
BumpAll(c, ids) ==
    IF ids = {} THEN c
    ELSE LET id == CHOOSE x \in ids : TRUE
         IN BumpAll(BumpCounter(c, id), ids \ {id})

(***************************************************************************)
(* State after PVDB.__init__ on a path without a snapshot                  *)
(***************************************************************************)
StoreInit ==
    /\ chunks = EmptyMap
    /\ documents = EmptyMap
    /\ ann_index = EmptyMap
    /\ dirty = FALSE
    /\ counter = 1
    /\ disk = NoFile
    /\ last_op = [op |-> "init"]

Init ==
    /\ StoreInit
    /\ probe = NoProbe

(***************************************************************************)
(* PVDB operations                                                         *)
(***************************************************************************)
\* PVDB.ingest_document
ingest_document(inp) ==
    /\ counter <= MaxChunks
    /\ LET doc_id == IF inp.doc_id = NoneStr THEN DefaultDocId(inp.uri) ELSE inp.doc_id
           document == IF doc_id \in DOMAIN documents THEN documents[doc_id]
                       ELSE DocumentRecord(doc_id)
           chunk_id == ChunkIdOf(doc_id, counter)
           chunk == ChunkRecord(chunk_id, doc_id, inp)
       IN /\ counter' = AdvanceCounter(counter)
          /\ chunks' = [id \in DOMAIN chunks \cup {chunk_id} |->
                            IF id = chunk_id THEN chunk ELSE chunks[id]]
          /\ documents' = [d \in DOMAIN documents \cup {doc_id} |->
                            IF d = doc_id
                            THEN [document EXCEPT !.chunk_ids = Append(@, chunk_id)]
                            ELSE documents[d]]
          /\ ann_index' = [id \in DOMAIN ann_index \cup {chunk_id} |->
                            IF id = chunk_id THEN inp.text ELSE ann_index[id]]
          /\ dirty' = TRUE
          /\ last_op' = [op |-> "ingest", input |-> inp, chunk_id |-> chunk_id,
                          prev |-> last_op.op]
    /\ UNCHANGED <<disk, probe>>

\* PVDB.upsert_document_metadata
upsert_document_metadata(doc_id, updates) ==
    /\ doc_id # ""
    /\ LET record == IF doc_id \in DOMAIN documents THEN documents[doc_id]
                     ELSE DocumentRecord(doc_id)
           merged == [k \in DOMAIN record.metadata \cup DOMAIN updates |->
                         IF k \in DOMAIN updates THEN updates[k] ELSE record.metadata[k]]
       IN documents' = [d \in DOMAIN documents \cup {doc_id} |->
                            IF d = doc_id THEN [record EXCEPT !.metadata = merged]
                            ELSE documents[d]]
    /\ dirty' = TRUE
    /\ last_op' = [op |-> "upsert", doc_id |-> doc_id,
                    reloaded |-> (last_op.op = "load"),
                    neutral |-> (documents' = documents)]
    /\ UNCHANGED <<chunks, ann_index, counter, disk, probe>>

\* a flush that clears the flag and writes nothing
flush_without_write ==
    /\ dirty' = FALSE
    /\ last_op' = [op |-> "flush", wrote |-> dirty]
    /\ UNCHANGED <<chunks, documents, ann_index, counter, disk, probe>>

\* PVDB.flush (persist path configured)
flush ==
    /\ IF ~dirty
       THEN UNCHANGED <<disk, dirty>>
       ELSE /\ disk' = SnapshotOf(chunks, documents)
            /\ dirty' = FALSE
    /\ last_op' = [op |-> "flush", wrote |-> dirty]
    /\ UNCHANGED <<chunks, documents, ann_index, counter, probe>>

\* a clear that empties the store in memory and leaves the snapshot file
pvdb_clear_memory_only ==
    /\ chunks' = EmptyMap
    /\ documents' = EmptyMap
    /\ ann_index' = EmptyMap
    /\ counter' = 1
    /\ dirty' = FALSE
    /\ disk' = disk

\* a clear that keeps the ANN index it had
pvdb_clear_keeps_index ==
    /\ chunks' = EmptyMap
    /\ documents' = EmptyMap
    /\ ann_index' = ann_index
    /\ counter' = 1
    /\ dirty' = FALSE
    /\ disk' = NoFile

\* PVDB.clear, the store it leaves
pvdb_clear ==
    /\ chunks' = EmptyMap
    /\ documents' = EmptyMap
    /\ ann_index' = EmptyMap
    /\ counter' = 1
    /\ dirty' = FALSE
    /\ disk' = NoFile

\* PVDB.clear called on its own
clear ==
    /\ pvdb_clear
    /\ last_op' = [op |-> "clear"]
    /\ UNCHANGED probe

\* PVDB.__init__ + PVDB._load: a new store object on the same persist path
load ==
    /\ IF disk = NoFile
       THEN /\ chunks' = EmptyMap
            /\ documents' = EmptyMap
            /\ ann_index' = EmptyMap
            /\ counter' = 1
       ELSE LET loaded == {ChunkFromDict(p) : p \in disk.chunks}
                ids == {c.chunk_id : c \in loaded}
                docs == {DocFromDict(p) : p \in {q \in disk.documents : q.doc_id # ""}}
            IN /\ chunks' = [id \in ids |-> CHOOSE c \in loaded : c.chunk_id = id]
               /\ counter' = BumpAll(1, ids)
               /\ documents' = [d \in {x.doc_id : x \in docs} |->
                                    CHOOSE x \in docs : x.doc_id = d]
               /\ ann_index' = [id \in ids |-> (CHOOSE c \in loaded : c.chunk_id = id).text]
    /\ dirty' = FALSE
    /\ last_op' = [op |-> "load"]
    /\ UNCHANGED <<disk, probe>>

Ingest == \E inp \in IngestInputs : ingest_document(inp)
Upsert == \E d \in DocIds, u \in MetadataUpdates : upsert_document_metadata(d, u)

Next == Ingest \/ Upsert \/ flush \/ clear \/ load

Spec == Init /\ [][Next]_vars

\* one store object from construction on an empty path: no second
\* construction, so no _load
NextResident == Ingest \/ Upsert \/ flush \/ clear

SpecResident == Init /\ [][NextResident]_vars

(***************************************************************************)
(* Read accessors                                                          *)
(***************************************************************************)
InsertionOrder(ids) ==
    LET pos(x) == Cardinality({o \in ids : ParseInt(o.suffix) < ParseInt(x.suffix)}) + 1
    IN AsList([p \in 1..Cardinality(ids) |-> CHOOSE x \in ids : pos(x) = p])

\* sorted(..., key=lambda chunk: chunk.valid_window.start), a stable sort:
\* an item goes after the items with a smaller key and the earlier items
\* with the same key
SortByStart(list) ==
    LET seq == AsList(list)
        key(i) == seq[i].valid_window.start
        pos(i) == Cardinality({j \in 1..Len(seq) :
                                 key(j) < key(i) \/ (key(j) = key(i) /\ j < i)}) + 1
    IN AsList([p \in 1..Len(seq) |-> seq[CHOOSE i \in 1..Len(seq) : pos(i) = p]])

\* PVDB.list_chunks
list_chunks(chs) ==
    LET order == InsertionOrder(DOMAIN chs)
    IN SortByStart(AsList([i \in 1..Len(order) |-> chs[order[i]]]))

Range(seq) == {seq[i] : i \in 1..Len(seq)}

(***************************************************************************)
(* list.sort(key=..., reverse=True): a stable sort, largest key first.     *)
(* Items are records [key, item].                                          *)
(***************************************************************************)
StableSortDesc(list) ==
    LET seq == AsList(list)
        before(j, i) == RLt(seq[i].key, seq[j].key)
                           \/ (seq[j].key = seq[i].key /\ j < i)
        pos(i) == Cardinality({j \in 1..Len(seq) : before(j, i)}) + 1
    IN AsList([p \in 1..Len(seq) |-> seq[CHOOSE i \in 1..Len(seq) : pos(i) = p]])

(***************************************************************************)
(* PVDB.temporal_filter                                                    *)
(***************************************************************************)
temporal_filter(candidates, window, mode) ==
    LET weight(c) == IF mode = "HARD" THEN One
                     ELSE intelligent_decay(c.valid_window, window)
        kept(c) == IF mode = "HARD" THEN hard_mode_pre_mask(c.valid_window, window)
                   ELSE ~RLe(weight(c), Zero)
        survivors == SelectSeq(candidates, kept)
        filtered == [i \in 1..Len(survivors) |->
                        [key |-> weight(survivors[i]),
                         item |-> [chunk |-> survivors[i], weight |-> weight(survivors[i])]]]
        sorted == StableSortDesc(filtered)
    IN AsList([i \in 1..Len(sorted) |-> sorted[i].item])

(***************************************************************************)
(* Arguments the pure functions are called with                            *)
(***************************************************************************)
\* latest day of the modelled time axis
MaxTime == 3
\* longest list handed to temporal_filter, reduce_passages, detect_conflicts
MaxList == 2

Days == 0..MaxTime
\* windows as make_window builds them
Windows == {TimeWindow(s, e) : s \in Days, e \in Days} \cap {make_window(s, e) : s \in Days, e \in Days}
\* windows built directly with TimeWindow(...), inverted ones included
RawWindows == {TimeWindow(s, e) : s \in Days, e \in Days}

SeqsUpTo(S, n) == UNION {[1..k -> S] : k \in 0..n}

\* candidate lists: the i-th chunk of a list has chunk_id i
CandidateLists ==
    {[i \in 1..Len(ws) |-> [chunk_id |-> i, valid_window |-> ws[i]]] : ws \in SeqsUpTo(Windows, MaxList)}

\* the arguments of one temporal_filter call, before the call
InitFilter ==
    /\ StoreInit
    /\ probe \in {[fn |-> "temporal_filter", candidates |-> cands, window |-> w,
                   mode |-> mode, done |-> FALSE, out |-> << >>] :
                     cands \in CandidateLists, w \in RawWindows,
                     mode \in {"HARD", "INTELLIGENT"}}

\* the call of temporal_filter
CallTemporalFilter ==
    /\ probe.fn = "temporal_filter"
    /\ ~probe.done
    /\ probe' = [probe EXCEPT !.done = TRUE,
                   !.out = temporal_filter(probe.candidates, probe.window, probe.mode)]
    /\ UNCHANGED storeVars

SpecFilter == InitFilter /\ [][CallTemporalFilter]_vars

(***************************************************************************)
(* app/utils/fusion.py                                                     *)
(***************************************************************************)
\* dict.get(key, default)
Get(map, key, default) == IF key \in DOMAIN map THEN map[key] ELSE default

\* max(0.0, min(1.0, x))
Clamp01(x) == RMax(Zero, RMin(One, x))

\* a weight taken from the configuration as it is
ClampWeightNone(x) == x

\* the clamp of alpha, beta_time and gamma_authority
ClampWeight(x) == RMax(Zero, RMin(One, x))

monotone_temporal_fusion(r, t, a, tx_mismatch, age_penalty, weights) ==
    LET alpha == ClampWeight(Get(weights, "alpha", Rat(55, 100)))
        beta_time == ClampWeight(Get(weights, "beta_time", Rat(25, 100)))
        gamma_auth == ClampWeight(Get(weights, "gamma_authority", Rat(15, 100)))
        delta_age == RMax(Zero, Get(weights, "delta_age", Rat(5, 100)))
        tx_gamma == RMax(Zero, Get(weights, "tx_gamma", Rat(40, 100)))
        base == RAdd(RAdd(RMul(alpha, Clamp01(r)), RMul(beta_time, Clamp01(t))),
                     RMul(gamma_auth, Clamp01(a)))
        penalty == RAdd(RMul(delta_age, Clamp01(age_penalty)),
                        RMul(tx_gamma, Clamp01(tx_mismatch)))
        combined == RMax(Zero, RSub(base, penalty))
    IN RMin(One, combined)

\* largest signal value, in halves
MaxSignalHalves == 3
SignalValues == {Rat(k, 2) : k \in (0 - 1)..MaxSignalHalves}
SignalNames == {"r", "t", "a", "tx_mismatch", "age_penalty"}
WeightNames == {"alpha", "beta_time", "gamma_authority", "delta_age", "tx_gamma"}

\* weight sets: nothing configured, the weights of the unit test (no
\* tx_gamma), and negative or above-one values for alpha and for the rest
WeightConfigs ==
    {EmptyMap,
     [k \in {"alpha", "beta_time", "gamma_authority", "delta_age"} |->
         CASE k = "alpha" -> Rat(55, 100) [] k = "beta_time" -> Rat(25, 100)
           [] k = "gamma_authority" -> Rat(15, 100) [] k = "delta_age" -> Rat(5, 100)]}
    \cup {[k \in WeightNames |-> IF k = "alpha" THEN x ELSE y] :
               x \in {Rat(0 - 1, 2), Rat(3, 2)}, y \in {Rat(0 - 1, 2), Rat(3, 2)}}

Fuse(signals, weights) ==
    monotone_temporal_fusion(signals.r, signals.t, signals.a, signals.tx_mismatch,
                             signals.age_penalty, weights)

InitFusion ==
    /\ StoreInit
    /\ probe \in {[fn |-> "fusion", signals |-> sg, weights |-> w, done |-> FALSE,
                   raised |-> FALSE, out |-> Zero] :
                     sg \in [SignalNames -> SignalValues], w \in WeightConfigs}

\* the call of monotone_temporal_fusion
CallFusion ==
    /\ probe.fn = "fusion"
    /\ ~probe.done
    /\ probe' = [probe EXCEPT !.done = TRUE, !.out = Fuse(probe.signals, probe.weights)]
    /\ UNCHANGED storeVars

\* a second call with one signal raised and everything else as before
RaiseSignal ==
    /\ probe.fn = "fusion"
    /\ probe.done
    /\ \E name \in SignalNames, v \in SignalValues :
          /\ RLt(probe.signals[name], v)
          /\ LET sg == [probe.signals EXCEPT ![name] = v]
             IN probe' = [probe EXCEPT !.signals = sg, !.raised = TRUE,
                                       !.out = Fuse(sg, probe.weights)]
    /\ UNCHANGED storeVars

SpecFusion == InitFusion /\ [][CallFusion \/ RaiseSignal]_vars

(***************************************************************************)
(* core/dhqc/controller.py                                                 *)
(***************************************************************************)
RDiv(a, b) == IF b.n > 0 THEN RMul(a, [n |-> b.d, d |-> b.n])
              ELSE RMul(a, [n |-> 0 - b.d, d |-> 0 - b.n])

\* DHQCController.__init__: cfg.get(key, default)
ControllerOf(cfg) ==
    [tau |-> Get(cfg, "tau", Rat(8, 10)), delta |-> Get(cfg, "delta", Rat(2, 10)),
     n_max |-> Get(cfg, "n_max", 3), n_hard |-> Get(cfg, "n_hard", 6),
     fanout_cap_total |-> Get(cfg, "fanout_cap_total", 250000)]

\* DHQCController._marginal_gain
marginal_gain(prev, current) ==
    IF RLe(prev, Zero) THEN current
    ELSE RMax(Zero, RDiv(RSub(current, prev), prev))

\* a coverage rule that ignores the mode's cap
CoverageHopsUncapped(cap) == 3

\* hops of the coverage rule: min(cap, 3)
CoverageHops(cap) == Min2(cap, 3)

\* a marginal-gain rule that keeps the hop count
MarginalGainHopsKept(hops) == hops

\* hops of the marginal-gain rule: max(1, hops - 1)
MarginalGainHops(hops) == Max2(1, hops - 1)

\* DHQCController.plan
plan(self, mode, coverage) ==
    LET cap == IF mode = "HARD" THEN self.n_hard ELSE self.n_max
        low == RLt(coverage, self.tau)
        hops1 == IF low THEN CoverageHops(cap) ELSE 1
        reason1 == IF low THEN "low_coverage" ELSE "baseline"
        stalled == RLt(marginal_gain(self.tau, coverage), self.delta)
        hops == IF stalled THEN MarginalGainHops(hops1) ELSE hops1
        reason == IF stalled THEN "marginal_gain_low" ELSE reason1
    IN [hops |-> hops,
        max_candidates |-> Min2(self.fanout_cap_total, IF hops > 1 THEN 24 ELSE 12),
        reason |-> reason]

\* largest configured hop cap
MaxCap == 4
ControllerConfigs ==
    {EmptyMap} \cup
    {[k \in {"tau", "delta", "n_max", "n_hard", "fanout_cap_total"} |->
        CASE k = "tau" -> tau [] k = "delta" -> delta [] k = "n_max" -> n_max
          [] k = "n_hard" -> n_hard [] k = "fanout_cap_total" -> fanout] :
        tau \in {Zero, Rat(8, 10)}, delta \in {Zero, Rat(2, 10)},
        n_max \in 0..MaxCap, n_hard \in 0..MaxCap, fanout \in {0, 12, 18, 250000}}
Coverages == {Zero, Rat(3, 10), Rat(79, 100), Rat(8, 10), Rat(9, 10), Rat(1, 1)}

InitPlan ==
    /\ StoreInit
    /\ probe \in {[fn |-> "plan", cfg |-> cfg, mode |-> mode, coverage |-> cov,
                   done |-> FALSE, out |-> EmptyMap] :
                     cfg \in ControllerConfigs, mode \in {"HARD", "INTELLIGENT"},
                     cov \in Coverages}

\* DHQCController(cfg).plan(mode, RetrievalSignals(coverage=...))
CallPlan ==
    /\ probe.fn = "plan"
    /\ ~probe.done
    /\ probe' = [probe EXCEPT !.done = TRUE,
                   !.out = plan(ControllerOf(probe.cfg), probe.mode, probe.coverage)]
    /\ UNCHANGED storeVars

SpecPlan == InitPlan /\ [][CallPlan]_vars

(***************************************************************************)
(* app/utils/chrono_reducer.py                                             *)
(***************************************************************************)
\* window_iou
window_iou(left, right) ==
    LET inter == intersection(left, right)
    IN IF inter = NoWindow THEN Zero
       ELSE LET union == duration(left) + duration(right) - duration(inter[1])
            IN IF union <= 0 THEN Zero ELSE Rat(duration(inter[1]), union)

\* text.strip().lower() on the texts of the model
NormalizeText(text) ==
    CASE text = "GDP rose " -> "gdp rose"
      [] text = "gdp rose" -> "gdp rose"
      [] OTHER -> text

\* the key of a passage in reduce_passages
PassageKey(p) == <<NormalizeText(p.text), p.valid_window.start>>

\* the test that lets a passage take the place of the current best of its key
Replaces(passage, current) ==
    RLt(current.authority, passage.authority) \/ RLt(current.score, passage.score)

RECURSIVE Bucket(_, _)
\* the dict after the first n passages, as the list of its values in
\* insertion order of their keys
Bucket(passages, n) ==
    IF n = 0 THEN << >>
    ELSE LET b == Bucket(passages, n - 1)
             p == passages[n]
             at == {i \in 1..Len(b) : PassageKey(b[i]) = PassageKey(p)}
         IN IF at = {} THEN Append(b, p)
            ELSE LET i == CHOOSE x \in at : TRUE
                 IN IF Replaces(p, b[i]) THEN [b EXCEPT ![i] = p] ELSE b

\* (valid_window.start, -authority, -score) compared as tuples
OrderKeyLe(a, b) ==
    \/ a.valid_window.start < b.valid_window.start
    \/ /\ a.valid_window.start = b.valid_window.start
       /\ \/ RLt(b.authority, a.authority)
          \/ a.authority = b.authority /\ RLe(b.score, a.score)

InsertAsc(s, x) ==
    LET idx == Cardinality({i \in 1..Len(s) : OrderKeyLe(s[i], x)})
    IN SubSeq(s, 1, idx) \o <<x>> \o SubSeq(s, idx + 1, Len(s))

RECURSIVE SortPrefixAsc(_, _)
SortPrefixAsc(seq, n) ==
    IF n = 0 THEN << >> ELSE InsertAsc(SortPrefixAsc(seq, n - 1), seq[n])

\* reduce_passages
reduce_passages(passages) ==
    LET values == Bucket(passages, Len(passages))
    IN SortPrefixAsc(values, Len(values))

\* the second passage of a pair is taken from passages[idx + 1:]
PairStartSelf(idx) == idx

PairStart(idx) == idx + 1

RECURSIVE ConflictsFrom(_, _, _, _)
\* the conflicts appended from the pair (idx, j) on
ConflictsFrom(passages, threshold, idx, j) ==
    IF idx > Len(passages) THEN << >>
    ELSE IF j > Len(passages)
         THEN ConflictsFrom(passages, threshold, idx + 1, PairStart(idx + 1))
         ELSE LET overlap == window_iou(passages[idx].valid_window, passages[j].valid_window)
                  rest == ConflictsFrom(passages, threshold, idx, j + 1)
              IN IF RLe(threshold, overlap)
                 THEN <<[first |-> passages[idx], second |-> passages[j],
                         overlap |-> overlap]>> \o rest
                 ELSE rest

\* detect_conflicts
detect_conflicts(passages, threshold) ==
    ConflictsFrom(passages, threshold, 1, PairStart(1))

\* longest passage list handed to detect_conflicts
MaxPassages == 3

ChronoPassage(id, text, w, authority, score) ==
    [chunk_id |-> id, text |-> text, valid_window |-> w, authority |-> authority,
     score |-> score]

\* passage lists for reduce_passages: the i-th passage has chunk_id i
ReduceInputs ==
    LET shapes == [text : {"GDP rose ", "gdp rose", "pop fell"}, start : {0, 1},
                   authority : {Rat(1, 5), Rat(4, 5)}, score : {Rat(1, 10), Rat(9, 10)}]
    IN {[i \in 1..Len(l) |->
            ChronoPassage(i, l[i].text, make_window(l[i].start, 2), l[i].authority, l[i].score)] :
          l \in SeqsUpTo(shapes, MaxList)}

\* passage lists for detect_conflicts, and the two passages of 1870:
\* [1870-01-01, 1871-01-01) and [1870-06-01, 1871-06-01) in days from
\* 1870-01-01
Passages1870 ==
    <<ChronoPassage(1, "gdp rose", make_window(0, 365), Rat(4, 5), Rat(1, 2)),
      ChronoPassage(2, "pop fell", make_window(151, 516), Rat(4, 5), Rat(1, 2))>>

ConflictInputs ==
    {[i \in 1..Len(ws) |-> ChronoPassage(i, "gdp rose", ws[i], Rat(4, 5), Rat(1, 2))] :
        ws \in SeqsUpTo(Windows, MaxPassages)} \cup {Passages1870}

Thresholds == {Zero, Rat(1, 3), Rat(4, 10), Rat(6, 10), One}

InitReduce ==
    /\ StoreInit
    /\ probe \in {[fn |-> "reduce_passages", passages |-> ps, done |-> FALSE, out |-> << >>] :
                     ps \in ReduceInputs}

CallReduce ==
    /\ probe.fn = "reduce_passages"
    /\ ~probe.done
    /\ probe' = [probe EXCEPT !.done = TRUE, !.out = reduce_passages(probe.passages)]
    /\ UNCHANGED storeVars

SpecReduce == InitReduce /\ [][CallReduce]_vars

InitConflicts ==
    /\ StoreInit
    /\ probe \in {[fn |-> "detect_conflicts", passages |-> ps, threshold |-> th,
                   done |-> FALSE, out |-> << >>] :
                     ps \in ConflictInputs, th \in Thresholds}

CallDetectConflicts ==
    /\ probe.fn = "detect_conflicts"
    /\ ~probe.done
    /\ probe' = [probe EXCEPT !.done = TRUE,
                   !.out = detect_conflicts(probe.passages, probe.threshold)]
    /\ UNCHANGED storeVars

SpecConflicts == InitConflicts /\ [][CallDetectConflicts]_vars

(***************************************************************************)
(* Policy configuration (policy_sets of the policy file)                   *)
(***************************************************************************)
WeightSet(alpha, beta_time, gamma_authority, delta_age) ==
    [k \in {"alpha", "beta_time", "gamma_authority", "delta_age"} |->
        CASE k = "alpha" -> alpha [] k = "beta_time" -> beta_time
          [] k = "gamma_authority" -> gamma_authority [] k = "delta_age" -> delta_age]

PolicyCfg ==
    [policy_sets |->
        [d \in {"generic", "roles", "world-economy"} |->
            CASE d = "generic" ->
                   [time_axis_default |-> "valid", time_mode_default |-> "INTELLIGENT",
                    hard_mode_for |-> {},
                    retrieval_weights |->
                        WeightSet(Rat(55, 100), Rat(25, 100), Rat(15, 100), Rat(5, 100))]
              [] d = "roles" ->
                   [time_axis_default |-> "valid", time_mode_default |-> "INTELLIGENT",
                    hard_mode_for |-> {"explicit_year"},
                    retrieval_weights |->
                        WeightSet(Rat(45, 100), Rat(35, 100), Rat(20, 100), Rat(10, 100))]
              [] d = "world-economy" ->
                   [time_axis_default |-> "valid", time_mode_default |-> "INTELLIGENT",
                    hard_mode_for |-> {"explicit_year", "explicit_period"},
                    retrieval_weights |->
                        WeightSet(Rat(50, 100), Rat(35, 100), Rat(15, 100), Rat(0, 100))]]]

(***************************************************************************)
(* Capabilities consumed by retrieve, in their light-mode forms            *)
(***************************************************************************)
Queries == {"GDP 1870 Europe", "Who is the CEO today?", "what happened"}

\* query.lower().split()
QueryTokens(q) ==
    CASE q = "GDP 1870 Europe" -> {"gdp", "1870", "europe"}
      [] q = "Who is the CEO today?" -> {"who", "is", "the", "ceo", "today?"}
      [] OTHER -> {"what", "happened"}

\* text.lower().split()
TextTokens(t) ==
    CASE t = "gdp 1870" -> <<"gdp", "1870">>
      [] t = "gdp 1870 revised" -> <<"gdp", "1870", "revised">>
      [] t = "gdp 1870 late" -> <<"gdp", "1870", "late">>
      [] OTHER -> <<"ceo", "today">>

\* core/gsm/intent.py detect_intent(query)["domain"]
detect_intent(q) ==
    CASE q \in {"GDP 1870 Europe", "GDP 1870 to 1913", "post-war GDP", "19th century GDP",
                 "19th century GDP 1870", "post-war 19th century GDP 1870"} ->
           "world-economy"
      [] q \in {"Who is the CEO today?", "CEO in 2015"} -> "roles"
      [] q = "What is the revenue guidance?" -> "finance"
      [] OTHER -> "generic"

\* a slice that keeps the whole sequence
PySliceAll(seq, k) == seq

\* seq[:k]
PySlice(seq, k) ==
    IF k >= 0 THEN SubSeq(seq, 1, Min2(k, Len(seq)))
    ELSE SubSeq(seq, 1, Max2(0, Len(seq) + k))

\* bm25_search without rank_bm25: the number of query tokens found in a text
bm25_search(query, docs, top_k) ==
    LET paired == [i \in 1..Len(docs) |->
                      [key |-> Rat(Cardinality(QueryTokens(query) \cap Range(TextTokens(docs[i].text))), 1),
                       item |-> docs[i].chunk_id]]
    IN PySlice(StableSortDesc(paired), top_k)

\* cosine scores of the query against the stored texts under the embedding
\* model in use
Embeddings ==
    { [t \in {"gdp 1870", "gdp 1870 revised", "gdp 1870 late", "ceo today"} |->
          IF t = "ceo today" THEN Rat(3, 4) ELSE Rat(0 - 1, 4)] }

\* InMemoryANNIndex.search
ann_index_search(index, emb, top_k) ==
    LET order == InsertionOrder(DOMAIN index)
        scored == [i \in 1..Len(order) |-> [key |-> emb[index[order[i]]], item |-> order[i]]]
    IN PySlice(StableSortDesc(scored), top_k)

\* PVDB.ann_search: unresolved ids are dropped
ann_search(chs, index, emb, top_k) ==
    LET hits == ann_index_search(index, emb, top_k)
        IsStored(h) == h.item \in DOMAIN chs
    IN SelectSeq(hits, IsStored)

\* CEReranker.rerank (stub): min(1, 0.1 * overlap) per passage index
ce_rerank(query, texts) ==
    LET overlap(t) == Cardinality({i \in 1..Len(TextTokens(t)) : TextTokens(t)[i] \in QueryTokens(query)})
    IN StableSortDesc([i \in 1..Len(texts) |->
                          [key |-> RMin(One, RMul(Rat(1, 10), Rat(overlap(texts[i]), 1))),
                           item |-> i]])

\* LLMJudgeReranker.rerank (light mode)
judge_rerank(enabled, features) ==
    IF ~enabled \/ Len(features) = 0 THEN << >>
    ELSE AsList([i \in 1..Len(features) |->
             [chunk_id |-> features[i].chunk_id,
              score |-> RMin(One, RAdd(RAdd(RMul(features[i].base, Rat(5, 10)),
                                            RMul(features[i].authority, Rat(3, 10))),
                                       RMul(features[i].time_weight, Rat(2, 10))))]])

(***************************************************************************)
(* app/services/retrieve_service.py                                        *)
(***************************************************************************)
\* _hybrid_ks
hybrid_ks(domain, requested) ==
    IF domain = "world-economy" THEN <<150, 150, 60>>
    ELSE LET base == Max2(requested * 2, 10) IN <<base, base, Min2(base, 30)>>

\* _age_penalty
age_penalty(query_window, candidate_window) ==
    IF intersects(candidate_window, query_window) THEN Zero
    ELSE RMin(One, Rat(gap_days(candidate_window, query_window), 3650))

\* _units_bias
units_bias(units) ==
    RAdd(RAdd(IF "intl_1990_usd" \in units THEN Rat(5, 100) ELSE Zero,
              IF "percent" \in units THEN Rat(2, 100) ELSE Zero),
         IF "ratio" \in units THEN Rat(1, 100) ELSE Zero)

RECURSIVE RegionDiversity(_, _)
\* _apply_region_diversity on the first n results
RegionDiversity(results, n) ==
    IF n = 0 THEN results
    ELSE LET before == RegionDiversity(results, n - 1)
             region == results[n].region
             seen == Cardinality({i \in 1..n : results[i].region = region})
         IN IF region = NoneStr \/ seen <= 1 THEN before
            ELSE [before EXCEPT ![n].final_score =
                     RMax(Zero, RMul(@, RSub(One, RMul(Rat(8, 100), Rat(seen - 1, 1)))))]

\* a domain taken from the query whatever the caller passed
InferDomainFromQuery(domain, query) == detect_intent(query)

\* domain or detect_intent(query).get("domain", "generic")
InferDomain(domain, query) ==
    IF domain = NoneStr \/ domain = "" THEN detect_intent(query) ELSE domain

\* the weight set retrieve reads from the policy
WeightsFor(policy_cfg, inferred_domain) ==
    LET sets == Get(policy_cfg, "policy_sets", EmptyMap)
        generic == Get(sets, "generic", EmptyMap)
        domain_policy == Get(sets, inferred_domain, generic)
    IN Get(domain_policy, "retrieval_weights", Get(generic, "retrieval_weights", EmptyMap))

\* retrieve, the candidates dict: one entry per chunk id, in insertion order,
\* with the largest lexical and vector score seen for it
MergeCandidates(chs, lexical, vector) ==
    LET IsStored(id) == id \in DOMAIN chs
        lexIds == SelectSeq(AsList([i \in 1..Len(lexical) |-> lexical[i].item]), IsStored)
        IsNew(id) == id \notin Range(lexIds)
        candIds == lexIds \o SelectSeq(AsList([i \in 1..Len(vector) |-> vector[i].item]), IsNew)
        best(hits, id) ==
            LET mine == {i \in 1..Len(hits) : hits[i].item = id}
            IN IF mine = {} THEN Zero
               ELSE RMax(Zero, hits[CHOOSE i \in mine : \A o \in mine : RLe(hits[o].key, hits[i].key)].key)
    IN AsList([i \in 1..Len(candIds) |->
                  [chunk_id |-> candIds[i], lexical |-> best(lexical, candIds[i]),
                   vector |-> best(vector, candIds[i])]])

\* retrieve, ranked_candidates: the candidates that got a time weight, by
\* lexical + vector, cut at rerank_limit
RankCandidates(chs, candidates, temporal, rerank_limit) ==
    LET time_weight(id) ==
            temporal[CHOOSE j \in 1..Len(temporal) : temporal[j].chunk.chunk_id = id].weight
        HasWeight(c) == \E j \in 1..Len(temporal) : temporal[j].chunk.chunk_id = c.chunk_id
        kept == SelectSeq(candidates, HasWeight)
        cut == PySlice(StableSortDesc([i \in 1..Len(kept) |->
                          [key |-> RAdd(kept[i].lexical, kept[i].vector), item |-> kept[i]]]),
                       rerank_limit)
    IN AsList([i \in 1..Len(cut) |->
                  [chunk_id |-> cut[i].item.chunk_id, base |-> cut[i].key,
                   time_weight |-> time_weight(cut[i].item.chunk_id)]])

\* retrieve, rerank_scores: the cross-encoder score of a ranked candidate,
\* else its lexical + vector score
RerankScores(ranked, ce) ==
    AsList([i \in 1..Len(ranked) |->
               LET mine == {k \in 1..Len(ce) : ce[k].item = i}
               IN [chunk_id |-> ranked[i].chunk_id, time_weight |-> ranked[i].time_weight,
                   rerank |-> IF mine = {} THEN ranked[i].base
                              ELSE ce[CHOOSE k \in mine : TRUE].key]])

\* retrieve, one entry of results
Result(chs, scored, judged, window, weights_cfg) ==
    LET chunk == chs[scored.chunk_id]
        mine == {k \in 1..Len(judged) : judged[k].chunk_id = scored.chunk_id}
        blended == IF mine = {} THEN scored.rerank
                   ELSE RMul(RAdd(scored.rerank, judged[CHOOSE k \in mine : TRUE].score), Rat(1, 2))
        rank_score == RMin(One, RAdd(blended, units_bias(chunk.units)))
    IN [chunk_id |-> scored.chunk_id, doc_id |-> chunk.doc_id, text |-> chunk.text,
        valid_window |-> WindowToDict(chunk.valid_window),
        authority |-> chunk.authority, rerank |-> rank_score,
        final_score |-> monotone_temporal_fusion(rank_score, scored.time_weight, chunk.authority,
                            tx_mismatch_penalty(chunk.valid_window, chunk.tx_window),
                            age_penalty(window, chunk.valid_window), weights_cfg),
        time_weight |-> scored.time_weight, units_detected |-> chunk.units,
        region |-> chunk.region]

\* retrieve
retrieve(chs, index, policy_cfg, emb, judge_enabled, query, window, mode, top_k, domain) ==
    LET inferred_domain == InferDomain(domain, query)
        weights_cfg == WeightsFor(policy_cfg, inferred_domain)
        ks == hybrid_ks(inferred_domain, top_k)
        texts(ranked) == AsList([i \in 1..Len(ranked) |-> chs[ranked[i].chunk_id].text])
        features(scored) ==
            AsList([i \in 1..Len(scored) |->
                       [chunk_id |-> scored[i].chunk_id, base |-> scored[i].rerank,
                        time_weight |-> scored[i].time_weight,
                        authority |-> chs[scored[i].chunk_id].authority]])
        by_final(results) ==
            StableSortDesc([i \in 1..Len(results) |->
                               [key |-> results[i].final_score, item |-> results[i]]])
    IN Then(list_chunks(chs), LAMBDA listed :
       Then(bm25_search(query, listed, ks[1]), LAMBDA lexical :
       Then(ann_search(chs, index, emb, ks[2]), LAMBDA vector :
       Then(MergeCandidates(chs, lexical, vector), LAMBDA candidates :
       Then(temporal_filter(AsList([i \in 1..Len(candidates) |-> chs[candidates[i].chunk_id]]),
                            window, mode), LAMBDA temporal :
       Then(RankCandidates(chs, candidates, temporal, ks[3]), LAMBDA ranked :
       Then(IF Len(ranked) = 0 THEN << >> ELSE ce_rerank(query, texts(ranked)), LAMBDA ce :
       Then(RerankScores(ranked, ce), LAMBDA scored :
       Then(judge_rerank(judge_enabled, features(scored)), LAMBDA judged :
       Then(AsList([i \in 1..Len(scored) |->
                       Result(chs, scored[i], judged, window, weights_cfg)]), LAMBDA built :
       Then(RegionDiversity(built, Len(built)), LAMBDA results :
       Then(by_final(results), LAMBDA sorted :
           [query |-> query, domain |-> inferred_domain,
            results |-> PySlice(AsList([i \in 1..Len(sorted) |-> sorted[i].item]),
                                Min2(top_k, Len(results))),
            weights_used |-> weights_cfg]))))))))))))

\* largest top_k of a request
MaxTopK == 2
RetrieveWindows == {make_window(1, 3), make_window(3, 4)}
RetrieveDomains == {NoneStr, "world-economy", "roles", "finance"}

\* one retrieve request against the store as it stands; the response is
\* recorded and the run ends there
Retrieve ==
    /\ probe = NoProbe
    /\ \E query \in Queries, window \in RetrieveWindows, mode \in {"HARD", "INTELLIGENT"},
          top_k \in 1..MaxTopK, domain \in RetrieveDomains,
          emb \in Embeddings, judge_enabled \in BOOLEAN :
          probe' = [fn |-> "retrieve", query |-> query, window |-> window, mode |-> mode,
                    top_k |-> top_k, domain |-> domain,
                    out |-> retrieve(chunks, ann_index, PolicyCfg, emb, judge_enabled,
                                     query, window, mode, top_k, domain)]
    /\ UNCHANGED storeVars

\* ingestion before the request
IngestBeforeRetrieve == probe = NoProbe /\ Ingest

SpecRetrieve == Init /\ [][IngestBeforeRetrieve \/ Retrieve]_vars

(***************************************************************************)
(* window_iou over windows built directly, inverted ones included         *)
(***************************************************************************)
InitIou ==
    /\ StoreInit
    /\ probe \in {[fn |-> "window_iou", left |-> a, right |-> b, done |-> FALSE, out |-> Zero] :
                     a \in RawWindows, b \in RawWindows}

CallWindowIou ==
    /\ probe.fn = "window_iou"
    /\ ~probe.done
    /\ probe' = [probe EXCEPT !.done = TRUE, !.out = window_iou(probe.left, probe.right)]
    /\ UNCHANGED storeVars

SpecIou == InitIou /\ [][CallWindowIou]_vars

(***************************************************************************)
(* make_window on datetimes as callers pass them: a wall-clock value on    *)
(* the grid with no tzinfo (<< >>) or a UTC offset (<<k>>), and an         *)
(* optional end                                                            *)
(***************************************************************************)
\* 9999-12-31 UTC, in days since 1970-01-01
EndOfTime == 2932896

DateTime(wall, tz) == [wall |-> wall, tz |-> tz]
NoDate == << >>

\* _ensure_timezone: the UTC instant; a naive value is read as UTC
ensure_timezone(value) == IF value.tz = << >> THEN value.wall ELSE value.wall - value.tz[1]

\* make_window(start, end=None)
make_window_call(start, end) ==
    LET given == IF end = NoDate THEN DateTime(EndOfTime, <<0>>) ELSE end[1]
    IN make_window(ensure_timezone(start), ensure_timezone(given))

UtcOffsets == {0 - 1, 0, 1}
DateTimes == {DateTime(w, tz) : w \in Days, tz \in {<< >>} \cup {<<k>> : k \in UtcOffsets}}

InitMakeWindow ==
    /\ StoreInit
    /\ probe \in {[fn |-> "make_window", start |-> s, end |-> e, done |-> FALSE,
                   out |-> TimeWindow(0, 0), again |-> TimeWindow(0, 0)] :
                     s \in DateTimes, e \in {NoDate} \cup {<<x>> : x \in DateTimes}}

\* one call, and a second call on the bounds of its result
CallMakeWindow ==
    /\ probe.fn = "make_window"
    /\ ~probe.done
    /\ LET out == make_window_call(probe.start, probe.end)
       IN probe' = [probe EXCEPT !.done = TRUE, !.out = out,
                       !.again = make_window_call(DateTime(out.start, <<0>>),
                                                  <<DateTime(out.end, <<0>>)>>)]
    /\ UNCHANGED storeVars

SpecMakeWindow == InitMakeWindow /\ [][CallMakeWindow]_vars

(***************************************************************************)
(* Two request threads on the one PVDB of the application state.  The      *)
(* store takes no lock, so the statements of ingest_document,              *)
(* upsert_document_metadata and flush interleave; each action below is one *)
(* statement.  A thread's locals live in its frame.  A request ingests or  *)
(* upserts and then flushes, as the ingest service does, or only flushes.  *)
(***************************************************************************)
Threads == {"t1", "t2"}

\* the calls a request thread makes: <<op, arguments>>
ThreadCalls ==
    {[op |-> "ingest", arg |-> <<inp>>] : inp \in IngestInputs}
      \cup {[op |-> "upsert", arg |-> <<d, u>>] : d \in {"d1"}, u \in MetadataUpdates}
      \cup {[op |-> "flush", arg |-> << >>]}

Frame(call) ==
    [op |-> call.op, arg |-> call.arg, pc |-> IF call.op = "flush" THEN "flush" ELSE "start",
     doc_id |-> NoneStr,
     chunk_id |-> << >>, loaded |-> 0, payload_chunks |-> {}, payload_documents |-> {}]

InitThreads ==
    /\ StoreInit
    /\ probe \in {[fn |-> "threads", frames |-> fs] :
                     fs \in [Threads -> {Frame(c) : c \in ThreadCalls}]}

\* thread t is at pc in op
At(t, op, pc) ==
    /\ probe.fn = "threads"
    /\ probe.frames[t].op = op
    /\ probe.frames[t].pc = pc

\* thread t is at pc of flush
InFlush(t, pc) ==
    /\ probe.fn = "threads"
    /\ probe.frames[t].pc = pc

\* dict.setdefault(doc_id, DocumentRecord(doc_id))
SetDefaultDocument(docs, doc_id) ==
    [d \in DOMAIN docs \cup {doc_id} |->
        IF d \in DOMAIN docs THEN docs[d] ELSE DocumentRecord(doc_id)]

\* ingest_document: doc_id = doc_id or default; documents.setdefault(...)
IngestSetDefault(t) ==
    /\ At(t, "ingest", "start")
    /\ LET inp == probe.frames[t].arg[1]
           doc_id == IF inp.doc_id = NoneStr THEN DefaultDocId(inp.uri) ELSE inp.doc_id
       IN /\ documents' = SetDefaultDocument(documents, doc_id)
          /\ probe' = [probe EXCEPT !.frames[t].doc_id = doc_id, !.frames[t].pc = "format_id"]
    /\ UNCHANGED <<chunks, ann_index, dirty, counter, disk, last_op>>

\* _next_chunk_id: chunk_id = f"{doc_id}:chunk:{self._counter:05d}"
IngestFormatId(t) ==
    /\ At(t, "ingest", "format_id")
    /\ probe' = [probe EXCEPT !.frames[t].chunk_id = <<ChunkIdOf(probe.frames[t].doc_id, counter)>>,
                              !.frames[t].pc = "load_counter"]
    /\ UNCHANGED storeVars

\* _next_chunk_id: self._counter += 1, the load
IngestLoadCounter(t) ==
    /\ At(t, "ingest", "load_counter")
    /\ probe' = [probe EXCEPT !.frames[t].loaded = counter, !.frames[t].pc = "store_counter"]
    /\ UNCHANGED storeVars

\* _next_chunk_id: self._counter += 1, the store
IngestStoreCounter(t) ==
    /\ At(t, "ingest", "store_counter")
    /\ counter' = AdvanceCounter(probe.frames[t].loaded)
    /\ probe' = [probe EXCEPT !.frames[t].pc = "store_chunk"]
    /\ UNCHANGED <<chunks, documents, ann_index, dirty, disk, last_op>>

\* self.chunks[chunk_id] = chunk
IngestStoreChunk(t) ==
    /\ At(t, "ingest", "store_chunk")
    /\ LET f == probe.frames[t]
           chunk_id == f.chunk_id[1]
       IN chunks' = [id \in DOMAIN chunks \cup {chunk_id} |->
                        IF id = chunk_id THEN ChunkRecord(chunk_id, f.doc_id, f.arg[1])
                        ELSE chunks[id]]
    /\ probe' = [probe EXCEPT !.frames[t].pc = "append"]
    /\ UNCHANGED <<documents, ann_index, dirty, counter, disk, last_op>>

\* document.chunk_ids.append(chunk_id)
IngestAppend(t) ==
    /\ At(t, "ingest", "append")
    /\ LET f == probe.frames[t]
       IN documents' = [documents EXCEPT ![f.doc_id].chunk_ids = Append(@, f.chunk_id[1])]
    /\ probe' = [probe EXCEPT !.frames[t].pc = "ann_add"]
    /\ UNCHANGED <<chunks, ann_index, dirty, counter, disk, last_op>>

\* self.ann_index.add(chunk_id, text, ...)
IngestAnnAdd(t) ==
    /\ At(t, "ingest", "ann_add")
    /\ LET f == probe.frames[t]
           chunk_id == f.chunk_id[1]
       IN ann_index' = [id \in DOMAIN ann_index \cup {chunk_id} |->
                           IF id = chunk_id THEN f.arg[1].text ELSE ann_index[id]]
    /\ probe' = [probe EXCEPT !.frames[t].pc = "set_dirty"]
    /\ UNCHANGED <<chunks, documents, dirty, counter, disk, last_op>>

\* upsert_document_metadata: documents.setdefault(...)
UpsertSetDefault(t) ==
    /\ At(t, "upsert", "start")
    /\ documents' = SetDefaultDocument(documents, probe.frames[t].arg[1])
    /\ probe' = [probe EXCEPT !.frames[t].doc_id = probe.frames[t].arg[1],
                              !.frames[t].pc = "update"]
    /\ UNCHANGED <<chunks, ann_index, dirty, counter, disk, last_op>>

\* upsert_document_metadata: record.metadata.update(updates)
UpsertUpdate(t) ==
    /\ At(t, "upsert", "update")
    /\ LET f == probe.frames[t]
           updates == f.arg[2]
       IN documents' = [documents EXCEPT ![f.doc_id].metadata =
                           [k \in DOMAIN @ \cup DOMAIN updates |->
                               IF k \in DOMAIN updates THEN updates[k] ELSE @[k]]]
    /\ probe' = [probe EXCEPT !.frames[t].pc = "set_dirty"]
    /\ UNCHANGED <<chunks, ann_index, dirty, counter, disk, last_op>>

\* self._dirty = True; return (ingest_document and upsert_document_metadata);
\* the service goes on to pvdb.flush()
SetDirty(t) ==
    /\ probe.fn = "threads"
    /\ probe.frames[t].pc = "set_dirty"
    /\ dirty' = TRUE
    /\ probe' = [probe EXCEPT !.frames[t].pc = "flush"]
    /\ UNCHANGED <<chunks, documents, ann_index, counter, disk, last_op>>

\* flush: if not self.persist_path or not self._dirty: return
FlushCheck(t) ==
    /\ InFlush(t, "flush")
    /\ probe' = [probe EXCEPT !.frames[t].pc = IF dirty THEN "read_chunks" ELSE "done"]
    /\ UNCHANGED storeVars

\* flush: "chunks": [chunk.to_dict() for chunk in sorted(self.chunks.values(), ...)]
FlushReadChunks(t) ==
    /\ InFlush(t, "read_chunks")
    /\ probe' = [probe EXCEPT !.frames[t].payload_chunks = SnapshotOf(chunks, documents).chunks,
                              !.frames[t].pc = "read_documents"]
    /\ UNCHANGED storeVars

\* flush: "documents": [doc.to_dict() for doc in sorted(self.documents.values(), ...)]
FlushReadDocuments(t) ==
    /\ InFlush(t, "read_documents")
    /\ probe' = [probe EXCEPT !.frames[t].payload_documents = SnapshotOf(chunks, documents).documents,
                              !.frames[t].pc = "write"]
    /\ UNCHANGED storeVars

\* flush: self.persist_path.write_text(json.dumps(payload))
FlushWrite(t) ==
    /\ InFlush(t, "write")
    /\ disk' = [chunks |-> probe.frames[t].payload_chunks,
                documents |-> probe.frames[t].payload_documents]
    /\ probe' = [probe EXCEPT !.frames[t].pc = "clear_dirty"]
    /\ UNCHANGED <<chunks, documents, ann_index, dirty, counter, last_op>>

\* flush: self._dirty = False
FlushClearDirty(t) ==
    /\ InFlush(t, "clear_dirty")
    /\ dirty' = FALSE
    /\ probe' = [probe EXCEPT !.frames[t].pc = "done"]
    /\ UNCHANGED <<chunks, documents, ann_index, counter, disk, last_op>>

ThreadStep(t) ==
    \/ IngestSetDefault(t)
    \/ IngestFormatId(t)
    \/ IngestLoadCounter(t)
    \/ IngestStoreCounter(t)
    \/ IngestStoreChunk(t)
    \/ IngestAppend(t)
    \/ IngestAnnAdd(t)
    \/ UpsertSetDefault(t)
    \/ UpsertUpdate(t)
    \/ SetDirty(t)
    \/ FlushCheck(t)
    \/ FlushReadChunks(t)
    \/ FlushReadDocuments(t)
    \/ FlushWrite(t)
    \/ FlushClearDirty(t)

NextThreads == \E t \in Threads : ThreadStep(t)

SpecThreads == InitThreads /\ [][NextThreads]_vars

\* thread t has returned from its request
Returned(t, op) == At(t, op, "done")

\* thread t's ingest_document call has returned
IngestDocumentReturned(t) ==
    /\ probe.fn = "threads"
    /\ probe.frames[t].op = "ingest"
    /\ probe.frames[t].pc \in {"flush", "read_chunks", "read_documents", "write",
                               "clear_dirty", "done"}

(***************************************************************************)
(* core/router/temporal_router.py.  Dates are days counted from            *)
(* 0001-01-01 (day 1).  The decision is modelled without its axis: the     *)
(* keyword table _pick_axis reads (core/router/rules.py) is not part of    *)
(* the sources, and no property below depends on the axis.                 *)
(***************************************************************************)
\* the ordinal of January 1st of a year (datetime(year, 1, 1).toordinal())
Jan1(year) ==
    LET y == year - 1 IN 365 * y + (y \div 4) - (y \div 100) + (y \div 400) + 1

RouterQueries ==
    {"GDP 1870 Europe", "GDP 1870 to 1913", "Who is the CEO today?", "CEO in 2015",
     "What is the revenue guidance?", "post-war GDP", "19th century GDP",
     "what happened", "what happened in 1999 and 2001",
     "19th century GDP 1870", "post-war 19th century GDP 1870"}

\* sorted({int(m.group(1)) for m in YEAR_PATTERN.finditer(query)})
YearsIn(q) ==
    CASE q \in {"GDP 1870 Europe", "19th century GDP 1870", "post-war 19th century GDP 1870"} ->
           <<1870>>
      [] q = "GDP 1870 to 1913" -> <<1870, 1913>>
      [] q = "CEO in 2015" -> <<2015>>
      [] q = "what happened in 1999 and 2001" -> <<1999, 2001>>
      [] OTHER -> << >>

\* sorted({int(m.group(1)) for m in CENTURY_PATTERN.finditer(query)})
CenturiesIn(q) ==
    IF q \in {"19th century GDP", "19th century GDP 1870", "post-war 19th century GDP 1870"}
    THEN <<19>> ELSE << >>

\* token in query.lower()
LowerContains(q, token) ==
    q \in {"post-war GDP", "post-war 19th century GDP 1870"} /\ token = "post-war"

\* _build_period_windows
build_period_windows(raw) ==
    [token \in DOMAIN raw |-> make_window(raw[token].from, raw[token].to)]

\* TemporalRouter.__init__: the fields route reads
TemporalRouter(policy_cfg, axis_cfg) ==
    LET policy_sets == Get(policy_cfg, "policy_sets", EmptyMap)
    IN [policy_sets |-> policy_sets,
        default_policy |-> Get(policy_sets, "generic", EmptyMap),
        snap_rules |-> Get(Get(axis_cfg, "snap_rules", EmptyMap), "INTELLIGENT_to_HARD", EmptyMap),
        period_windows |-> build_period_windows(Get(axis_cfg, "fuzzy_period_map", EmptyMap)),
        window_defaults |-> Get(axis_cfg, "time_window_defaults", EmptyMap)]

\* _policy_for
policy_for(router, domain) == Get(router.policy_sets, domain, router.default_policy)

\* _pick_mode: window_kind in {"year", "decade"}
IsYearKind(window_kind) == window_kind \in {"year", "decade"}

\* a comparison that snaps to HARD only above the threshold
ReachesStrictly(value, threshold) == RLt(threshold, value)

\* _pick_mode: signal >= threshold
Reaches(value, threshold) == RLe(threshold, value)

\* _pick_mode; signals is << >> for None and <<dict>> otherwise
pick_mode(router, signals, policy, window_kind) ==
    LET default_mode == Get(policy, "time_mode_default",
                            Get(router.default_policy, "time_mode_default", "INTELLIGENT"))
        hard_modes == Get(policy, "hard_mode_for", {})
    IN IF IsYearKind(window_kind) /\ "explicit_year" \in hard_modes THEN "HARD"
       ELSE IF window_kind = "century" /\ "explicit_century" \in hard_modes THEN "HARD"
       ELSE IF window_kind = "period" /\ "explicit_period" \in hard_modes THEN "HARD"
       ELSE IF signals = << >> \/ signals[1] = EmptyMap THEN default_mode
       ELSE LET contradiction == Get(signals[1], "contradiction", Zero)
                low_conf == Get(signals[1], "low_confidence", Zero)
                threshold_contra == Get(router.snap_rules, "contradiction", Rat(1, 2))
                threshold_low == Get(router.snap_rules, "low_confidence", Rat(35, 100))
            IN IF Reaches(contradiction, threshold_contra) \/ Reaches(low_conf, threshold_low)
               THEN "HARD" ELSE default_mode

\* _build_year_window, for a non-empty sorted list of years
build_year_window(router, years) ==
    LET pad == Get(router.window_defaults, "decade_padding_years", 5)
    IN IF Len(years) = 1
       THEN [window |-> make_window(Jan1(Max2(1, years[1] - pad)), Jan1(years[1] + pad + 1)),
             kind |-> "decade"]
       ELSE [window |-> make_window(Jan1(years[1]), Jan1(years[Len(years)] + 1)),
             kind |-> "year_range"]

\* _build_century_window, for a non-empty list of centuries
build_century_window(router, centuries) ==
    LET start_year == (centuries[1] - 1) * 100 + 1
        end_year == centuries[1] * 100
        pad == Get(router.window_defaults, "century_padding_years", 50)
    IN [window |-> make_window(Jan1(Max2(1, start_year - pad)), Jan1(end_year + pad + 1)),
        kind |-> "century"]

\* normalize_time_hint, for a hint that is given; dates are parsed values
normalize_time_hint(time_hint) ==
    IF Get(time_hint, "operator", "AS_OF") = "AS_OF"
    THEN LET at == Get(time_hint, "at", Jan1(1970)) IN make_window(at, at + 1)
    ELSE make_window(Get(time_hint, "from", Jan1(1970)), Get(time_hint, "to", Jan1(10000) - 1))

\* a resolution that looks at year tokens before the century pattern
infer_window_years_first(router, query, time_hint) ==
    LET periods == {token \in DOMAIN router.period_windows : LowerContains(query, token)}
    IN IF time_hint # << >> /\ time_hint[1] # EmptyMap
       THEN [window |-> normalize_time_hint(time_hint[1]), kind |-> "hint"]
       ELSE IF periods # {}
       THEN [window |-> router.period_windows[CHOOSE token \in periods : TRUE], kind |-> "period"]
       ELSE IF Len(YearsIn(query)) > 0 THEN build_year_window(router, YearsIn(query))
       ELSE IF Len(CenturiesIn(query)) > 0 THEN build_century_window(router, CenturiesIn(query))
       ELSE [window |-> make_window(Jan1(1), Jan1(2100)), kind |-> "broad"]

\* _infer_window; time_hint is << >> for None and <<dict>> otherwise
infer_window(router, query, time_hint) ==
    LET periods == {token \in DOMAIN router.period_windows : LowerContains(query, token)}
    IN IF time_hint # << >> /\ time_hint[1] # EmptyMap
       THEN [window |-> normalize_time_hint(time_hint[1]), kind |-> "hint"]
       ELSE IF periods # {}
       THEN [window |-> router.period_windows[CHOOSE token \in periods : TRUE], kind |-> "period"]
       ELSE IF Len(CenturiesIn(query)) > 0 THEN build_century_window(router, CenturiesIn(query))
       ELSE IF Len(YearsIn(query)) > 0 THEN build_year_window(router, YearsIn(query))
       ELSE [window |-> make_window(Jan1(1), Jan1(2100)), kind |-> "broad"]

\* route: the decision, and the value it leaves in self.observability
route(router, query, time_hint, signals) ==
    LET domain == detect_intent(query)
        policy == policy_for(router, domain)
        inferred == infer_window(router, query, time_hint)
    IN [mode |-> pick_mode(router, signals, policy, inferred.kind),
        window |-> inferred.window, domain |-> domain, window_kind |-> inferred.kind]

observability_of(decision) ==
    [time_window_kind |-> decision.window_kind, domain |-> decision.domain]

(***************************************************************************)
(* Router configurations and requests                                      *)
(***************************************************************************)
\* the axis configuration of the router tests
AxisCfg ==
    [snap_rules |-> [INTELLIGENT_to_HARD |->
                        [contradiction |-> Rat(1, 2), low_confidence |-> Rat(35, 100)]],
     time_window_defaults |-> [decade_padding_years |-> 5, century_padding_years |-> 50],
     fuzzy_period_map |-> [t \in {"post-war"} |-> [from |-> Jan1(1945), to |-> Jan1(1961) - 1]]]

\* that configuration, one without any entry, and one with other thresholds
AxisConfigs ==
    { AxisCfg,
      EmptyMap,
      [snap_rules |-> [INTELLIGENT_to_HARD |-> [k \in {"contradiction"} |-> Rat(7, 10)]]] }

\* the policy of the router tests; one whose generic default is HARD and
\* whose roles set names no default; one without policy sets
RouterPolicies ==
    { PolicyCfg,
      [policy_sets |->
          [d \in {"generic", "roles"} |->
              IF d = "generic"
              THEN [time_axis_default |-> "valid", time_mode_default |-> "HARD",
                    hard_mode_for |-> {"explicit_century"}]
              ELSE [time_axis_default |-> "valid", hard_mode_for |-> {"explicit_year"}]]],
      EmptyMap }

TimeHints ==
    { << >>, <<EmptyMap>>, <<[operator |-> "AS_OF", at |-> Jan1(2015)]>>,
      <<[operator |-> "BETWEEN", from |-> Jan1(1875), to |-> Jan1(1865)]>> }

SignalLevels == {Rat(34, 100), Rat(35, 100), Rat(1, 2), Rat(7, 10)}

LiveSignals ==
    { << >>, <<EmptyMap>> }
      \cup {<<[k \in {"contradiction"} |-> x]>> : x \in SignalLevels}
      \cup {<<[k \in {"low_confidence"} |-> x]>> : x \in SignalLevels}
      \cup {<<[contradiction |-> x, low_confidence |-> y]>> : x, y \in SignalLevels}

InitRoute ==
    /\ StoreInit
    /\ probe \in {[fn |-> "route", policy_cfg |-> p, axis_cfg |-> a, query |-> q,
                   time_hint |-> h, signals |-> s, done |-> FALSE,
                   out |-> [mode |-> NoneStr, window |-> TimeWindow(0, 0), domain |-> NoneStr,
                            window_kind |-> NoneStr]] :
                     p \in RouterPolicies, a \in AxisConfigs, q \in RouterQueries,
                     h \in TimeHints, s \in LiveSignals}

CallRoute ==
    /\ probe.fn = "route"
    /\ ~probe.done
    /\ probe' = [probe EXCEPT !.done = TRUE,
                   !.out = route(TemporalRouter(probe.policy_cfg, probe.axis_cfg), probe.query,
                                 probe.time_hint, probe.signals)]
    /\ UNCHANGED storeVars

SpecRoute == InitRoute /\ [][CallRoute]_vars

(***************************************************************************)
(* app/services/answer_service.py: two request threads in answer() on the  *)
(* one router of the application state.  route() leaves its decision's     *)
(* kind and domain in router.observability; answer() reads that attribute  *)
(* when it builds controller_stats, after retrieval and generation.        *)
(***************************************************************************)
AnswerFrame(query, requested_mode) ==
    [query |-> query, requested_mode |-> requested_mode, pc |-> "route",
     decision |-> << >>, retrieval |-> << >>, controller_stats |-> << >>]

InitAnswers ==
    /\ StoreInit
    /\ probe \in {[fn |-> "answers", observability |-> EmptyMap, frames |-> fs] :
                     fs \in [Threads -> {AnswerFrame(q, m) : q \in RouterQueries,
                                                            m \in {NoneStr, "HARD"}}]}

AnswerAt(t, pc) ==
    /\ probe.fn = "answers"
    /\ probe.frames[t].pc = pc

\* decision = router.route(query, time_hint, signals=None)
AnswerRoute(t) ==
    /\ AnswerAt(t, "route")
    /\ LET decision == route(TemporalRouter(PolicyCfg, AxisCfg), probe.frames[t].query,
                             << >>, << >>)
       IN probe' = [probe EXCEPT !.observability = observability_of(decision),
                                 !.frames[t].decision = <<decision>>,
                                 !.frames[t].pc = "retrieve"]
    /\ UNCHANGED storeVars

\* retrieval = retrieve(query, window, mode, top_k=..., axis=axis, domain=domain)
AnswerRetrieve(t) ==
    /\ AnswerAt(t, "retrieve")
    /\ LET f == probe.frames[t]
           decision == f.decision[1]
           mode == IF f.requested_mode = NoneStr THEN decision.mode ELSE f.requested_mode
           retrieval_top_k == IF decision.domain = "world-economy" THEN 60 ELSE 6
       IN probe' = [probe EXCEPT
                      !.frames[t].retrieval =
                          <<retrieve(chunks, ann_index, PolicyCfg, CHOOSE emb \in Embeddings : TRUE,
                                     TRUE, f.query, decision.window, mode, retrieval_top_k,
                                     decision.domain)>>,
                      !.frames[t].pc = "stats"]
    /\ UNCHANGED storeVars

\* controller_stats = {"time_window_kind": window_kind, ...,
\*                     "router_metrics": getattr(router, "observability", {})}
AnswerBuildStats(t) ==
    /\ AnswerAt(t, "stats")
    /\ LET f == probe.frames[t]
       IN probe' = [probe EXCEPT
                      !.frames[t].controller_stats =
                          <<[time_window_kind |-> f.decision[1].window_kind,
                             retrieval_weights |-> f.retrieval[1].weights_used,
                             router_metrics |-> probe.observability]>>,
                      !.frames[t].pc = "done"]
    /\ UNCHANGED storeVars

NextAnswers ==
    \E t \in Threads : AnswerRoute(t) \/ AnswerRetrieve(t) \/ AnswerBuildStats(t)

SpecAnswers == InitAnswers /\ [][NextAnswers]_vars

(***************************************************************************)
(* retrieve with the rerank and judge capabilities as deployed: the stubs  *)
(* in light mode, loaded models otherwise                                  *)
(***************************************************************************)
\* a call that returned a value
Value(v) == [raised |-> FALSE, value |-> v]

\* a call an exception left
Raise(error) == [raised |-> TRUE, error |-> error]

\* the normalised score a loaded cross-encoder gives a passage
CeLogistics == {Rat(1, 2)}

\* CEReranker.rerank: _ensure_model installs the stub in light mode; otherwise
\* the sentence_transformers import, the CrossEncoder load and predict run
\* unguarded
ce_rerank_call(ce_state, logistic, query, texts) ==
    CASE ce_state = "stub" -> Value(ce_rerank(query, texts))
      [] ce_state = "model" ->
           Value(StableSortDesc([i \in 1..Len(texts) |-> [key |-> logistic, item |-> i]]))
      [] ce_state = "load_raises" -> Raise("CrossEncoder")
      [] ce_state = "predict_raises" -> Raise("predict")

\* a judge that never scores a passage
judge_rerank_silent(judge_state, enabled, features) == Value(<< >>)

\* LLMJudgeReranker.rerank: light-mode scoring, else _ensure_backend
\* (load_backend raises when no backend works) and generate run unguarded;
\* a reply _parse_scores cannot read leaves every passage its base score
judge_rerank_call(judge_state, enabled, features) ==
    IF ~enabled \/ Len(features) = 0 THEN Value(<< >>)
    ELSE CASE judge_state = "light" -> Value(judge_rerank(enabled, features))
           [] judge_state = "load_raises" -> Raise("No LLM backend available")
           [] judge_state = "generate_raises" -> Raise("generate")
           [] judge_state = "unparsed" ->
                Value(AsList([i \in 1..Len(features) |->
                         [chunk_id |-> features[i].chunk_id, score |-> features[i].base]]))

\* light mode is one switch for both capabilities
Capabilities ==
    {[ce |-> "stub", judge |-> "light"]}
    \cup [ce : {"model", "load_raises", "predict_raises"},
          judge : {"load_raises", "generate_raises", "unparsed"}]

\* retrieve, with each capability call either returning or raising
retrieve_call(caps, logistic, chs, index, policy_cfg, emb, judge_enabled, query, window, mode, top_k, domain) ==
    LET inferred_domain == InferDomain(domain, query)
        weights_cfg == WeightsFor(policy_cfg, inferred_domain)
        ks == hybrid_ks(inferred_domain, top_k)
        texts(ranked) == AsList([i \in 1..Len(ranked) |-> chs[ranked[i].chunk_id].text])
        features(scored) ==
            AsList([i \in 1..Len(scored) |->
                       [chunk_id |-> scored[i].chunk_id, base |-> scored[i].rerank,
                        time_weight |-> scored[i].time_weight,
                        authority |-> chs[scored[i].chunk_id].authority]])
        by_final(results) ==
            StableSortDesc([i \in 1..Len(results) |->
                               [key |-> results[i].final_score, item |-> results[i]]])
    IN Then(list_chunks(chs), LAMBDA listed :
       Then(bm25_search(query, listed, ks[1]), LAMBDA lexical :
       Then(ann_search(chs, index, emb, ks[2]), LAMBDA vector :
       Then(MergeCandidates(chs, lexical, vector), LAMBDA candidates :
       Then(temporal_filter(AsList([i \in 1..Len(candidates) |-> chs[candidates[i].chunk_id]]),
                            window, mode), LAMBDA temporal :
       Then(RankCandidates(chs, candidates, temporal, ks[3]), LAMBDA ranked :
       Then(IF Len(ranked) = 0 THEN Value(<< >>)
            ELSE ce_rerank_call(caps.ce, logistic, query, texts(ranked)), LAMBDA ce :
       IF ce.raised THEN ce ELSE
       Then(RerankScores(ranked, ce.value), LAMBDA scored :
       Then(judge_rerank_call(caps.judge, judge_enabled, features(scored)), LAMBDA judged :
       IF judged.raised THEN judged ELSE
       Then(AsList([i \in 1..Len(scored) |->
                       Result(chs, scored[i], judged.value, window, weights_cfg)]), LAMBDA built :
       Then(RegionDiversity(built, Len(built)), LAMBDA results :
       Then(by_final(results), LAMBDA sorted :
           Value([query |-> query, domain |-> inferred_domain,
                  results |-> PySlice(AsList([i \in 1..Len(sorted) |-> sorted[i].item]),
                                      Min2(top_k, Len(results))),
                  weights_used |-> weights_cfg])))))))))))))

\* one retrieve request under some state of the capabilities; what the
\* caller gets, a response or the exception, is recorded
RetrieveCall ==
    /\ probe = NoProbe
    /\ \E query \in Queries, window \in RetrieveWindows, mode \in {"HARD", "INTELLIGENT"},
          emb \in Embeddings, judge_enabled \in BOOLEAN,
          caps \in Capabilities, logistic \in CeLogistics :
          probe' = [fn |-> "retrieve_call", caps |-> caps, judge_enabled |-> judge_enabled,
                    logistic |-> logistic, query |-> query, window |-> window, mode |-> mode,
                    stored |-> Cardinality(DOMAIN chunks),
                    out |-> retrieve_call(caps, logistic, chunks, ann_index, PolicyCfg, emb,
                                          judge_enabled, query, window, mode, MaxTopK, NoneStr)]
    /\ UNCHANGED storeVars

SpecCapabilities == Init /\ [][IngestBeforeRetrieve \/ RetrieveCall]_vars

(***************************************************************************)
(* Persistence on a file system that can fail                              *)
(***************************************************************************)
\* a snapshot file json.loads cannot parse (a truncated or partial write)
Corrupt == [corrupt |-> TRUE]

\* what write_text meets: success, a failure before the file is opened
\* (mkdir or open raises, the file keeps its content), or a failure after
\* the open has truncated it
WriteOutcomes == {"ok", "open_fails", "write_fails"}

\* what read_text meets
ReadOutcomes == {"ok", "read_fails"}

\* ingest_service.ingest for one text blob: _process_payload stores the
\* chunk, then pvdb.flush() runs as the last statement before the return;
\* an exception of write_text leaves flush before self._dirty = False and
\* leaves ingest before return ingested_ids.  After a startup that raised
\* there is no store to ingest into
IngestRequest(inp, fs) ==
    /\ counter <= MaxChunks
    /\ ~(last_op.op = "startup" /\ last_op.raised)
    /\ LET doc_id == IF inp.doc_id = NoneStr THEN DefaultDocId(inp.uri) ELSE inp.doc_id
           document == IF doc_id \in DOMAIN documents THEN documents[doc_id]
                       ELSE DocumentRecord(doc_id)
           chunk_id == ChunkIdOf(doc_id, counter)
           chunk == ChunkRecord(chunk_id, doc_id, inp)
       IN /\ counter' = AdvanceCounter(counter)
          /\ chunks' = [id \in DOMAIN chunks \cup {chunk_id} |->
                            IF id = chunk_id THEN chunk ELSE chunks[id]]
          /\ documents' = [d \in DOMAIN documents \cup {doc_id} |->
                            IF d = doc_id
                            THEN [document EXCEPT !.chunk_ids = Append(@, chunk_id)]
                            ELSE documents[d]]
          /\ ann_index' = [id \in DOMAIN ann_index \cup {chunk_id} |->
                            IF id = chunk_id THEN inp.text ELSE ann_index[id]]
          /\ disk' = CASE fs = "ok" -> SnapshotOf(chunks', documents')
                       [] fs = "open_fails" -> disk
                       [] fs = "write_fails" -> Corrupt
          /\ dirty' = (fs # "ok")
          /\ last_op' = [op |-> "ingest_request", raised |-> fs # "ok",
                          returned |-> IF fs = "ok" THEN <<chunk_id>> ELSE << >>,
                          stored |-> chunk_id]
    /\ UNCHANGED probe

\* get_app_state: PVDB.__init__ runs _load on the persist path.  A missing
\* file returns early; read_text and json.loads run unguarded, so their
\* exception leaves __init__ and no store exists afterwards
Startup(rs) ==
    /\ IF disk = NoFile \/ disk = Corrupt \/ rs = "read_fails"
       THEN /\ chunks' = EmptyMap
            /\ documents' = EmptyMap
            /\ ann_index' = EmptyMap
            /\ counter' = 1
       ELSE LET loaded == {ChunkFromDict(p) : p \in disk.chunks}
                ids == {c.chunk_id : c \in loaded}
                docs == {DocFromDict(p) : p \in {q \in disk.documents : q.doc_id # ""}}
            IN /\ chunks' = [id \in ids |-> CHOOSE c \in loaded : c.chunk_id = id]
               /\ counter' = BumpAll(1, ids)
               /\ documents' = [d \in {x.doc_id : x \in docs} |->
                                    CHOOSE x \in docs : x.doc_id = d]
               /\ ann_index' = [id \in ids |-> (CHOOSE c \in loaded : c.chunk_id = id).text]
    /\ dirty' = FALSE
    /\ last_op' = [op |-> "startup",
                    raised |-> disk # NoFile /\ (disk = Corrupt \/ rs = "read_fails"),
                    snapshot |-> disk]
    /\ UNCHANGED <<disk, probe>>

IngestRequests == \E inp \in IngestInputs, fs \in WriteOutcomes : IngestRequest(inp, fs)
Startups == \E rs \in ReadOutcomes : Startup(rs)

SpecPersistence == Init /\ [][IngestRequests \/ Startups]_vars

(***************************************************************************)
(* The application state of app/deps.py next to the store: the cache       *)
(* client and the policy state.  They are carried in probe.                *)
(***************************************************************************)
\* CacheClient.__init__: client is set when REDIS_URL names a reachable
\* server; keys live in the server or in the fallback dict
CacheClient(client) == [client |-> client, redis |-> EmptyMap, fallback |-> EmptyMap]

\* dict[key] = value
Put(map, key, value) == [k \in DOMAIN map \cup {key} |-> IF k = key THEN value ELSE map[k]]

\* CacheClient.set
cache_set(cache, key, value) ==
    IF cache.client THEN [cache EXCEPT !.redis = Put(@, key, value)]
    ELSE [cache EXCEPT !.fallback = Put(@, key, value)]

\* CacheClient.get; << >> is None
cache_get(cache, key) ==
    IF cache.client /\ key \in DOMAIN cache.redis THEN <<cache.redis[key]>>
    ELSE IF key \in DOMAIN cache.fallback THEN <<cache.fallback[key]>>
    ELSE << >>

\* a clear that empties the fallback dict only
cache_clear_fallback_only(cache) == [cache EXCEPT !.fallback = EmptyMap]

\* CacheClient.clear: flushdb on the server when there is one, then the
\* fallback dict
cache_clear(cache) ==
    [cache EXCEPT !.redis = IF cache.client THEN EmptyMap ELSE @, !.fallback = EmptyMap]

\* AppState: the policy fields get_app_state builds
AppState(policy_cfg, policy_version) ==
    [policy_cfg |-> policy_cfg, policy_version |-> policy_version, policy_applied_keys |-> {}]

\* set_policy_cfg; the key is NoneStr for None.  dict.update replaces the
\* top-level entries the changes name
set_policy_cfg(state, new_policy, version, idempotency_key) ==
    LET keyed == idempotency_key # NoneStr /\ idempotency_key # ""
    IN IF keyed /\ idempotency_key \in state.policy_applied_keys THEN state
       ELSE [policy_cfg |-> [k \in DOMAIN state.policy_cfg \cup DOMAIN new_policy |->
                                IF k \in DOMAIN new_policy THEN new_policy[k]
                                ELSE state.policy_cfg[k]],
             policy_version |-> version,
             policy_applied_keys |-> IF keyed THEN state.policy_applied_keys \cup {idempotency_key}
                                     ELSE state.policy_applied_keys]

CacheKeys == {"freshness:test"}
IdempotencyKeys == {"k1"}

InitPurge ==
    /\ StoreInit
    /\ probe \in {[fn |-> "app", cache |-> CacheClient(client), state |-> AppState(EmptyMap, "v0")] :
                     client \in BOOLEAN}

\* cache.set(key, {"epoch": 1})
CacheSet == \E key \in CacheKeys :
    /\ probe' = [probe EXCEPT !.cache = cache_set(@, key, [epoch |-> 1])]
    /\ last_op' = [op |-> "cache_set", key |-> key]
    /\ UNCHANGED <<chunks, documents, ann_index, dirty, counter, disk>>

\* a policy update that registers its idempotency key
PolicyKeyApplied == \E key \in IdempotencyKeys :
    /\ probe' = [probe EXCEPT !.state = set_policy_cfg(@, EmptyMap, "v1", key)]
    /\ last_op' = [op |-> "set_policy_cfg", key |-> key]
    /\ UNCHANGED <<chunks, documents, ann_index, dirty, counter, disk>>

\* purge_system
purge_system ==
    /\ pvdb_clear
    /\ probe' = [probe EXCEPT !.cache = cache_clear(@), !.state.policy_applied_keys = {}]
    /\ last_op' = [op |-> "purge", status |-> [status |-> "ok", pvdb |-> "cleared", cache |-> "cleared"],
                    chunks_before |-> Cardinality(DOMAIN chunks),
                    documents_before |-> Cardinality(DOMAIN documents),
                    file_before |-> disk # NoFile, dirty_before |-> dirty,
                    cached_before |-> {k \in CacheKeys : cache_get(probe.cache, k) # << >>},
                    keys_before |-> probe.state.policy_applied_keys]

NextPurge == Ingest \/ flush \/ load \/ CacheSet \/ PolicyKeyApplied \/ purge_system

SpecPurge == InitPurge /\ [][NextPurge]_vars

(***************************************************************************)
(* intelligent_decay of two candidate windows against one query window     *)
(***************************************************************************)
InitDecay ==
    /\ StoreInit
    /\ probe \in {[fn |-> "intelligent_decay", near |-> a, far |-> b, query |-> q,
                   done |-> FALSE, out |-> [near |-> Zero, far |-> Zero]] :
                     a \in Windows, b \in Windows, q \in Windows}

CallIntelligentDecay ==
    /\ probe.fn = "intelligent_decay"
    /\ ~probe.done
    /\ probe' = [probe EXCEPT !.done = TRUE,
                   !.out = [near |-> intelligent_decay(probe.near, probe.query),
                            far |-> intelligent_decay(probe.far, probe.query)]]
    /\ UNCHANGED storeVars

SpecDecay == InitDecay /\ [][CallIntelligentDecay]_vars

(***************************************************************************)
(* app/services/ingest_service.py, structured records.  A record is a map; *)
(* a key it does not carry is absent from its domain.  Dates are parsed    *)
(* values (day ordinals).                                                  *)
(***************************************************************************)
WORLD_ECONOMY_DOC_ID == "oecd-maddison:world_economy:v2006"

WORLD_FACET_DEFAULTS ==
    [tenant |-> "lab", domain |-> "world-economy", source |-> "oecd-maddison",
     license |-> "(c) OECD 2006 (short summaries only)", locale |-> "en",
     fiscal_year_start |-> "JAN"]

\* datetime.year of a day ordinal
YearOf(day) == CHOOSE y \in 1..9999 : Jan1(y) <= day /\ day < Jan1(y + 1)

\* _is_world_economy
is_world_economy(payload) ==
    \/ "world-economy" \in Get(payload, "tags", {})
    \/ Get(Get(payload, "facets", EmptyMap), "domain", NoneStr) = "world-economy"

\* _merge_facets: setdefault keeps every key the record supplies
merge_facets(facets, defaults) ==
    [k \in DOMAIN facets \cup DOMAIN defaults |-> IF k \in DOMAIN facets THEN facets[k] ELSE defaults[k]]

\* _resolve_valid_window; granularity and sigma are NoneStr for None
resolve_valid_window(payload, facets) ==
    LET valid == Get(payload, "valid", EmptyMap)
        start == IF "from" \in DOMAIN valid THEN valid.from
                 ELSE IF "year" \in DOMAIN payload THEN Jan1(payload.year)
                 ELSE Jan1(1970)
        world == Get(facets, "domain", NoneStr) = "world-economy"
        end == IF "to" \in DOMAIN valid THEN valid.to
               ELSE IF Get(valid, "granularity", NoneStr) = "year" \/ world
               THEN Jan1(YearOf(start) + 1)
               ELSE EndOfTime
        granularity == IF "granularity" \in DOMAIN valid THEN valid.granularity
                       ELSE IF world THEN "year" ELSE NoneStr
        sigma == IF "sigma_days" \in DOMAIN valid THEN valid.sigma_days
                 ELSE IF world /\ granularity = "year" THEN 90 ELSE NoneStr
    IN [window |-> make_window(start, end), granularity |-> granularity, sigma |-> sigma]

\* the labels of UNIT_PATTERNS with a pattern found in the text; the
\* patterns written with a doubled backslash look for a literal backslash
\* and find none in these texts
UnitPatternsFound(text) ==
    CASE text = "growth was 2 percent" -> <<"percent">>
      [] text = "debt ratio of europe" -> <<"ratio">>
      [] OTHER -> << >>

\* "gdp" in lowered; "per capita" in lowered or "per-capita" in lowered
MentionsGdp(text) == text \in {"gdp of europe in 1870", "gdp per capita 1870"}
MentionsPerCapita(text) == text \in {"gdp per capita 1870"}

\* _detect_units
detect_units(text, facets) ==
    LET found == UnitPatternsFound(text)
        world == Get(facets, "domain", NoneStr) = "world-economy"
        usd == IF world /\ MentionsGdp(text) /\ "intl_1990_usd" \notin Range(found)
               THEN found \o <<"intl_1990_usd">> ELSE found
        ratio == IF world /\ MentionsPerCapita(text) /\ "ratio" \notin Range(usd)
                 THEN usd \o <<"ratio">> ELSE usd
    IN IF ratio = << >> THEN <<"n/a">> ELSE ratio

\* _ingest_structured for one record whose text is a string: the fields it
\* hands to ingest_document, which stores them as given
ingest_structured(payload) ==
    LET facets == merge_facets(Get(payload, "facets", EmptyMap),
                               IF is_world_economy(payload) THEN WORLD_FACET_DEFAULTS
                               ELSE EmptyMap)
        resolved == resolve_valid_window(payload, facets)
        doc_id == IF "doc_id" \in DOMAIN payload THEN payload.doc_id
                  ELSE IF Get(facets, "domain", NoneStr) = "world-economy"
                  THEN WORLD_ECONOMY_DOC_ID ELSE NoneStr
    IN [doc_id |-> doc_id, text |-> payload.text, facets |-> facets,
        valid_window |-> resolved.window, time_granularity |-> resolved.granularity,
        time_sigma_days |-> resolved.sigma, units |-> detect_units(payload.text, facets)]

\* the record's optional parts
WithKey(map, key, values) == {map} \cup {Put(map, key, v) : v \in values}

StructuredTexts ==
    {"gdp of europe in 1870", "gdp per capita 1870", "growth was 2 percent",
     "debt ratio of europe", "notes"}
RecordFacets ==
    {[k \in {"domain"} |-> "world-economy"], [k \in {"domain"} |-> "finance"],
     [k \in {"tenant"} |-> "acme"], [domain |-> "world-economy", tenant |-> "acme"]}
RecordValids ==
    {[k \in {"from"} |-> Jan1(1870)], [k \in {"from"} |-> Jan1(1870) + 165],
     [k \in {"granularity"} |-> "decade"], [k \in {"sigma_days"} |-> 30],
     [from |-> Jan1(1870), to |-> Jan1(1880)]}
StructuredRecords ==
    UNION {UNION {UNION {WithKey(withFacets, "valid", RecordValids) :
                           withFacets \in WithKey(withTags, "facets", RecordFacets)} :
                    withTags \in WithKey(withYear, "tags", {{"world-economy"}, {"history"}})} :
             withYear \in UNION {WithKey([k \in {"text"} |-> text], "year", {1870}) :
                                    text \in StructuredTexts}}

InitStructured ==
    /\ StoreInit
    /\ probe \in {[fn |-> "ingest_structured", payload |-> p, done |-> FALSE, out |-> EmptyMap] :
                     p \in StructuredRecords}

CallIngestStructured ==
    /\ probe.fn = "ingest_structured"
    /\ ~probe.done
    /\ probe' = [probe EXCEPT !.done = TRUE, !.out = ingest_structured(probe.payload)]
    /\ UNCHANGED storeVars

SpecStructured == InitStructured /\ [][CallIngestStructured]_vars

(***************************************************************************)
(* app/services/policy_service.py                                          *)
(***************************************************************************)
ADMIN_TOKEN == "Bearer chronorag-admin"

\* apply_policy; now is the value of time.time().  The result carries the
\* application state the call leaves, and either the response or the
\* HTTPException
apply_policy(state, payload, authorization, now) ==
    LET previous_version == state.policy_version
        keyed == payload.idempotency_key # NoneStr /\ payload.idempotency_key # ""
    IN IF authorization # ADMIN_TOKEN
       THEN [state |-> state, raised |-> TRUE, response |-> EmptyMap]
       ELSE IF payload.policy_version = previous_version /\ keyed
       THEN [state |-> state, raised |-> FALSE,
             response |-> [policy_version |-> state.policy_version,
                           previous_version |-> previous_version, accepted |-> FALSE]]
       ELSE LET applied == set_policy_cfg(state, payload.changes, payload.policy_version,
                                          payload.idempotency_key)
            IN [state |-> [applied EXCEPT !.policy_cfg = Put(@, "last_applied_at", now)],
                raised |-> FALSE,
                response |-> [policy_version |-> payload.policy_version,
                              previous_version |-> previous_version, accepted |-> TRUE]]

\* the policy file at startup: the policy sets and a dhqc section
StartupPolicy == Put(PolicyCfg, "dhqc", [tau |-> Rat(8, 10), delta |-> Rat(2, 10)])

\* policy sets that make HARD the generic default and shift the weights
OtherPolicySets ==
    [d \in {"generic"} |->
        [time_axis_default |-> "valid", time_mode_default |-> "HARD", hard_mode_for |-> {},
         retrieval_weights |-> WeightSet(Rat(40, 100), Rat(40, 100), Rat(15, 100), Rat(5, 100))]]

PolicyChanges ==
    {EmptyMap, [k \in {"policy_sets"} |-> OtherPolicySets],
     [k \in {"dhqc"} |-> [tau |-> Rat(1, 2), delta |-> Rat(2, 10)]]}
PolicyVersions == {"v0", "v1", "v2"}
PolicyRequests ==
    [policy_version : PolicyVersions, changes : PolicyChanges,
     idempotency_key : IdempotencyKeys \cup {NoneStr}]
Authorizations == {ADMIN_TOKEN, "Bearer guest"}
Clock == {1, 2}

\* get_app_state: the router and the controller are built once, from the
\* policy as it is at startup.  The router keeps the policy_sets dict it
\* read then and the controller the thresholds it read then; dict.update
\* in set_policy_cfg rebinds the keys of policy_cfg and reaches neither
InitPolicy ==
    /\ StoreInit
    /\ probe = [fn |-> "policy", state |-> AppState(StartupPolicy, "v0"),
                before |-> AppState(StartupPolicy, "v0"),
                router |-> TemporalRouter(StartupPolicy, AxisCfg),
                controller |-> ControllerOf(Get(StartupPolicy, "dhqc", EmptyMap)),
                request |-> EmptyMap, authorization |-> NoneStr, result |-> EmptyMap,
                served |-> EmptyMap]

\* PATCH /policy
ApplyPolicy == \E payload \in PolicyRequests, authorization \in Authorizations, now \in Clock :
    LET result == apply_policy(probe.state, payload, authorization, now)
    IN /\ probe' = [probe EXCEPT !.state = result.state, !.before = probe.state,
                      !.request = payload, !.authorization = authorization,
                      !.result = result, !.served = EmptyMap]
       /\ UNCHANGED storeVars

\* one answer request: router.route, then retrieve, which reads
\* get_policy_cfg() at the call, then controller.plan on the coverage the
\* retrieval gave
ServeRequest == \E query \in {"what happened", "CEO in 2015"}, coverage \in {Rat(3, 10), Rat(79, 100)} :
    LET decision == route(probe.router, query, << >>, << >>)
    IN /\ probe' = [probe EXCEPT !.served =
                      [query |-> query, coverage |-> coverage, mode |-> decision.mode,
                       weights_used |-> WeightsFor(probe.state.policy_cfg, decision.domain),
                       plan |-> plan(probe.controller, decision.mode, coverage)]]
       /\ UNCHANGED storeVars

SpecPolicy == InitPolicy /\ [][ApplyPolicy \/ ServeRequest]_vars

(***************************************************************************)
(* C1  Lineage closure: when a chunk B is ingested whose external_id is    *)
(* that of the one stored chunk A of that lineage, and B's tx_window       *)
(* starts later than A's, A's tx_window.end becomes max(B.start, A.start), *)
(* and A and B are both listed with distinct chunk ids.                    *)
(***************************************************************************)
IsSuccessor(A, inp) ==
    /\ inp.external_id # NoneStr
    /\ A.external_id = inp.external_id
    /\ A.tx_window # NoWindow
    /\ inp.tx_window # NoWindow
    /\ inp.tx_window[1].start > A.tx_window[1].start

LineageClosure ==
    [][ last_op'.op = "ingest" =>
          \A a \in DOMAIN chunks :
             ( /\ IsSuccessor(chunks[a], last_op'.input)
               /\ \A o \in DOMAIN chunks : chunks[o].external_id = chunks[a].external_id => o = a )
             => /\ a \in DOMAIN chunks'
                /\ chunks'[a].tx_window # NoWindow
                /\ chunks'[a].tx_window[1].end =
                      Max2(last_op'.input.tx_window[1].start, chunks[a].tx_window[1].start)
                /\ a # last_op'.chunk_id
                /\ {chunks'[a], chunks'[last_op'.chunk_id]} \subseteq Range(list_chunks(chunks'))
      ]_vars

(***************************************************************************)
(* C2  Chunk immutability: ingest_document, upsert_document_metadata and   *)
(* flush leave every stored chunk in the store with all its fields as they *)
(* were, except that tx_window.end may move to a value not earlier than    *)
(* tx_window.start.                                                        *)
(***************************************************************************)
TxEndOnly(old, new) ==
    \/ new = old
    \/ /\ old # NoWindow
       /\ new # NoWindow
       /\ new[1].start = old[1].start
       /\ new[1].end >= new[1].start

ChunkImmutability ==
    [][ last_op'.op \in {"ingest", "upsert", "flush"} =>
          \A id \in DOMAIN chunks :
             /\ id \in DOMAIN chunks'
             /\ chunks'[id].text = chunks[id].text
             /\ chunks'[id].valid_window = chunks[id].valid_window
             /\ [chunks'[id] EXCEPT !.tx_window = chunks[id].tx_window] = chunks[id]
             /\ TxEndOnly(chunks[id].tx_window, chunks'[id].tx_window)
      ]_vars

\* a chunk of a reloaded snapshot has lived through a later ingest into its
\* own document
ChunkImmutabilityWitness ==
    /\ last_op.op = "ingest"
    /\ last_op.prev = "load"
    /\ \E id \in DOMAIN chunks : id # last_op.chunk_id /\ id.doc = last_op.chunk_id.doc

(***************************************************************************)
(* C3  Append-only store with unique ids: ingest_document adds exactly one *)
(* chunk under an id no stored chunk has (chunks loaded from a snapshot    *)
(* included) and changes no stored chunk; upsert_document_metadata and     *)
(* flush leave the chunk map alone.                                        *)
(***************************************************************************)
AppendOnlyUniqueIds ==
    [][ /\ last_op'.op = "ingest" =>
             /\ last_op'.chunk_id \notin DOMAIN chunks
             /\ DOMAIN chunks' = DOMAIN chunks \cup {last_op'.chunk_id}
             /\ Cardinality(DOMAIN chunks') = Cardinality(DOMAIN chunks) + 1
             /\ \A id \in DOMAIN chunks : chunks'[id] = chunks[id]
        /\ last_op'.op \in {"upsert", "flush"} => chunks' = chunks
      ]_vars

\* a chunk ingested into a store whose first chunk came from a snapshot
AppendOnlyUniqueIdsWitness ==
    /\ last_op.op = "ingest"
    /\ last_op.prev = "load"
    /\ Cardinality(DOMAIN chunks) = 2
    /\ disk # NoFile

(***************************************************************************)
(* C4  temporal_filter: in HARD mode the result holds exactly the          *)
(* candidates whose valid_window overlaps the query window                 *)
(* (a.start < b.end and b.start < a.end), each with weight 1; in           *)
(* INTELLIGENT mode every overlapping candidate is returned with weight 1  *)
(* and every returned weight is positive.                                  *)
(***************************************************************************)
Overlaps(a, b) == a.start < b.end /\ b.start < a.end

TemporalFilterContract ==
    (probe.fn = "temporal_filter" /\ probe.done) =>
        LET out == probe.out
            cands == probe.candidates
            returned(c) == {j \in 1..Len(out) : out[j].chunk = c}
        IN /\ \A j \in 1..Len(out) : \E i \in 1..Len(cands) : out[j].chunk = cands[i]
           /\ \A i \in 1..Len(cands) : Cardinality(returned(cands[i])) <= 1
           /\ \A j \in 1..Len(out) : out[j].weight.n > 0
           /\ probe.mode = "HARD" =>
                 \A i \in 1..Len(cands) :
                    /\ (returned(cands[i]) # {}) <=> Overlaps(cands[i].valid_window, probe.window)
                    /\ \A j \in returned(cands[i]) : out[j].weight = One
           /\ probe.mode = "INTELLIGENT" =>
                 \A i \in 1..Len(cands) :
                    Overlaps(cands[i].valid_window, probe.window) =>
                       \E j \in returned(cands[i]) : out[j].weight = One

\* HARD mode has dropped one of two candidates
TemporalFilterHardWitness ==
    /\ probe.fn = "temporal_filter"
    /\ probe.done
    /\ probe.mode = "HARD"
    /\ Len(probe.candidates) = 2
    /\ Len(probe.out) = 1

(***************************************************************************)
(* C6  monotone_temporal_fusion: for every weight set (negative and        *)
(* above-one weights included) the result lies in [0, 1]; raising r, t or  *)
(* a alone never lowers it; raising tx_mismatch or age_penalty alone never *)
(* raises it.                                                              *)
(***************************************************************************)
\* the one signal in which the new call's arguments are larger
RaisedOnly(name) ==
    /\ RLt(probe.signals[name], probe'.signals[name])
    /\ \A o \in SignalNames \ {name} : probe'.signals[o] = probe.signals[o]

FusionMonotoneBounded ==
    [][ (probe'.fn = "fusion" /\ probe'.done) =>
          /\ RLe(Zero, probe'.out) /\ RLe(probe'.out, One)
          /\ \A name \in {"r", "t", "a"} :
                (probe.done /\ RaisedOnly(name)) => RLe(probe.out, probe'.out)
          /\ \A name \in {"tx_mismatch", "age_penalty"} :
                (probe.done /\ RaisedOnly(name)) => RLe(probe'.out, probe.out)
      ]_vars

\* a second call with a raised signal, under weights configured outside
\* [0, 1], whose score lies strictly inside (0, 1)
FusionMonotoneWitness ==
    /\ probe.fn = "fusion"
    /\ probe.done
    /\ probe.raised
    /\ "tx_gamma" \in DOMAIN probe.weights
    /\ probe.weights["tx_gamma"] = Rat(3, 2)
    /\ probe.weights["alpha"] = Rat(0 - 1, 2)
    /\ probe.signals["tx_mismatch"] = Rat(1, 2)
    /\ RLt(Zero, probe.out)
    /\ RLt(probe.out, One)

(***************************************************************************)
(* C7  DHQCController.plan, as claimed: for every mode, coverage and       *)
(* configuration, 1 <= hops <= the mode's hop cap and                      *)
(* max_candidates <= fanout_cap_total.                                     *)
(***************************************************************************)
ModeCap(self, mode) == IF mode = "HARD" THEN self.n_hard ELSE self.n_max

PlanCapsAnyConfig ==
    (probe.fn = "plan" /\ probe.done) =>
        LET self == ControllerOf(probe.cfg)
        IN /\ 1 <= probe.out.hops
           /\ probe.out.hops <= ModeCap(self, probe.mode)
           /\ probe.out.max_candidates <= self.fanout_cap_total

(***************************************************************************)
(* C7 amended: whenever the mode's hop cap is at least 1,                  *)
(* 1 <= hops <= the mode's hop cap; max_candidates <= fanout_cap_total     *)
(* under every configuration.                                              *)
(***************************************************************************)
PlanCaps ==
    (probe.fn = "plan" /\ probe.done) =>
        LET self == ControllerOf(probe.cfg)
        IN /\ ModeCap(self, probe.mode) >= 1 =>
                 /\ 1 <= probe.out.hops
                 /\ probe.out.hops <= ModeCap(self, probe.mode)
           /\ probe.out.max_candidates <= self.fanout_cap_total

\* low coverage under a cap of 2 and no marginal-gain reduction: the cap binds
PlanCapsWitness ==
    /\ probe.fn = "plan"
    /\ probe.done
    /\ probe.mode = "INTELLIGENT"
    /\ ControllerOf(probe.cfg).n_max = 2
    /\ probe.out.reason = "low_coverage"
    /\ probe.out.hops = 2
    /\ probe.out.max_candidates = 18

(***************************************************************************)
(* C8  The marginal-gain rule comes after the coverage rule: whenever      *)
(* tau > 0 and max(0, (coverage - tau) / tau) < delta, hops is the         *)
(* coverage rule's value (1, or min(cap, 3) when coverage < tau) less one, *)
(* floored at 1, and the reason is "marginal_gain_low"; with tau = 0.8,    *)
(* delta = 0.2, n_max = 3 every coverage below tau gives hops <= 2 with    *)
(* that reason; "low_coverage" is returned only when the marginal gain is  *)
(* not below delta.                                                        *)
(***************************************************************************)
GainOf(self, coverage) ==
    LET q == RSub(coverage, self.tau)
    IN IF RLe(q, Zero) THEN Zero ELSE Rat(q.n * self.tau.d, q.d * self.tau.n)

MarginalGainAfterCoverage ==
    (probe.fn = "plan" /\ probe.done) =>
        LET self == ControllerOf(probe.cfg)
            cap == ModeCap(self, probe.mode)
            ruleHops == IF RLt(probe.coverage, self.tau)
                        THEN (IF cap <= 3 THEN cap ELSE 3) ELSE 1
        IN /\ (self.tau.n > 0 /\ RLt(GainOf(self, probe.coverage), self.delta)) =>
                 /\ probe.out.hops = (IF ruleHops - 1 >= 1 THEN ruleHops - 1 ELSE 1)
                 /\ probe.out.reason = "marginal_gain_low"
           /\ ( /\ self.tau = Rat(8, 10) /\ self.delta = Rat(2, 10) /\ self.n_max = 3
                /\ probe.mode # "HARD" /\ RLt(probe.coverage, self.tau) ) =>
                 /\ probe.out.hops <= 2
                 /\ probe.out.reason = "marginal_gain_low"
           /\ (probe.out.reason = "low_coverage" /\ self.tau.n > 0) =>
                 ~RLt(GainOf(self, probe.coverage), self.delta)

\* coverage 0.79 under the default thresholds: three hops cut to two
MarginalGainWitness ==
    /\ probe.fn = "plan"
    /\ probe.done
    /\ probe.cfg = EmptyMap
    /\ probe.mode = "INTELLIGENT"
    /\ probe.coverage = Rat(79, 100)
    /\ probe.out.hops = 2
    /\ probe.out.reason = "marginal_gain_low"

(***************************************************************************)
(* C9  reduce_passages: for every duplicate-key group of the input (same   *)
(* stripped lower-cased text, same valid_window.start) the passage kept    *)
(* has the largest authority of the group.                                 *)
(***************************************************************************)
KeepsHighestAuthority ==
    (probe.fn = "reduce_passages" /\ probe.done) =>
        \A i \in 1..Len(probe.passages) :
           \E j \in 1..Len(probe.out) :
              /\ PassageKey(probe.out[j]) = PassageKey(probe.passages[i])
              /\ RLe(probe.passages[i].authority, probe.out[j].authority)

(***************************************************************************)
(* C10  detect_conflicts reports the pair of list positions i < j exactly  *)
(* once when window_iou of their valid windows is >= threshold and not at  *)
(* all otherwise, and reports nothing else (no passage with itself, no     *)
(* pair twice); the windows [1870-01-01, 1871-01-01) and                   *)
(* [1870-06-01, 1871-06-01) give no conflict at 0.6 and one at 0.4.        *)
(***************************************************************************)
ConflictsIffOverlap ==
    (probe.fn = "detect_conflicts" /\ probe.done) =>
        LET ps == probe.passages
            out == probe.out
            reports(i, j) == {k \in 1..Len(out) : out[k].first = ps[i] /\ out[k].second = ps[j]}
            due == {pr \in (1..Len(ps)) \X (1..Len(ps)) :
                      /\ pr[1] < pr[2]
                      /\ RLe(probe.threshold,
                             window_iou(ps[pr[1]].valid_window, ps[pr[2]].valid_window))}
        IN /\ \A i \in 1..Len(ps), j \in 1..Len(ps) :
                 Cardinality(reports(i, j)) = IF <<i, j>> \in due THEN 1 ELSE 0
           /\ Len(out) = Cardinality(due)
           /\ (ps = Passages1870 /\ probe.threshold = Rat(6, 10)) => Len(out) = 0
           /\ (ps = Passages1870 /\ probe.threshold = Rat(4, 10)) =>
                 /\ Len(out) = 1
                 /\ out[1].overlap = Rat(214, 516)

\* the 1870 windows at threshold 0.4: one conflict
ConflictsWitness ==
    /\ probe.fn = "detect_conflicts"
    /\ probe.done
    /\ probe.passages = Passages1870
    /\ probe.threshold = Rat(4, 10)
    /\ Len(probe.out) = 1

(***************************************************************************)
(* C5  retrieve in HARD mode with domain = d: every result's valid_window  *)
(* overlaps the query window, the response's domain is d, and weights_used *)
(* is the retrieval_weights set configured for d; for "world-economy" its  *)
(* delta_age is 0.                                                         *)
(***************************************************************************)
RetrieveHardContract ==
    (probe.fn = "retrieve" /\ probe.mode = "HARD" /\ probe.domain # NoneStr) =>
        LET out == probe.out
            sets == PolicyCfg.policy_sets
        IN /\ \A i \in 1..Len(out.results) :
                 /\ out.results[i].valid_window.from < probe.window.end
                 /\ probe.window.start < out.results[i].valid_window.to
           /\ out.domain = probe.domain
           /\ probe.domain \in DOMAIN sets =>
                 out.weights_used = sets[probe.domain].retrieval_weights
           /\ probe.domain = "world-economy" => out.weights_used["delta_age"] = Zero

\* a world-economy request in HARD mode on a store holding a chunk inside
\* and a chunk outside the query window, answered with the one inside
RetrieveHardWitness ==
    /\ probe.fn = "retrieve"
    /\ probe.mode = "HARD"
    /\ probe.domain = "world-economy"
    /\ probe.query = "Who is the CEO today?"
    /\ Cardinality(DOMAIN chunks) = 2
    /\ Len(probe.out.results) = 1

(***************************************************************************)
(* C11  window_iou(A, B), for all windows A and B, zero-length and         *)
(* inverted ones included, lies in [0, 1]; it is 1 for A = B of positive   *)
(* duration and 0 whenever A and B do not intersect.                       *)
(***************************************************************************)
WindowIouContract ==
    (probe.fn = "window_iou" /\ probe.done) =>
        /\ RLe(Zero, probe.out) /\ RLe(probe.out, One)
        /\ (probe.left = probe.right /\ probe.left.end > probe.left.start) => probe.out = One
        /\ ~intersects(probe.left, probe.right) => probe.out = Zero

\* an inverted window against one that contains both its bounds: they
\* intersect, and the score is 0
WindowIouWitness ==
    /\ probe.fn = "window_iou"
    /\ probe.done
    /\ probe.left.end < probe.left.start
    /\ intersects(probe.left, probe.right)
    /\ probe.out = Zero

(***************************************************************************)
(* C12  make_window(start, end), for all inputs, returns a window with     *)
(* start <= end whose bounds are the two inputs, the smaller as start and  *)
(* the larger as end, the end being 9999-12-31 UTC when omitted; applied   *)
(* to the bounds of its own result it returns the same window.             *)
(***************************************************************************)
MakeWindowContract ==
    (probe.fn = "make_window" /\ probe.done) =>
        LET s == ensure_timezone(probe.start)
            e == IF probe.end = NoDate THEN EndOfTime ELSE ensure_timezone(probe.end[1])
        IN /\ probe.out.start <= probe.out.end
           /\ probe.out.start = Min2(s, e)
           /\ probe.out.end = Max2(s, e)
           /\ probe.again = probe.out

\* reversed inputs: the start given is later than the end given
MakeWindowWitness ==
    /\ probe.fn = "make_window"
    /\ probe.done
    /\ probe.end # NoDate
    /\ ensure_timezone(probe.start) > ensure_timezone(probe.end[1])
    /\ probe.out.start = ensure_timezone(probe.end[1])

(***************************************************************************)
(* C13  Two interleaved ingest_document calls allocate distinct chunk ids, *)
(* and once both have returned both chunks are in the chunk map, in their  *)
(* document's chunk_ids and in the ANN index.                              *)
(***************************************************************************)
ConcurrentIngestKeepsBoth ==
    (Returned("t1", "ingest") /\ Returned("t2", "ingest")) =>
        LET f1 == probe.frames["t1"]
            f2 == probe.frames["t2"]
            Kept(f) ==
                /\ f.chunk_id[1] \in DOMAIN chunks
                /\ chunks[f.chunk_id[1]].text = f.arg[1].text
                /\ \E i \in 1..Len(documents[f.doc_id].chunk_ids) :
                      documents[f.doc_id].chunk_ids[i] = f.chunk_id[1]
                /\ f.chunk_id[1] \in DOMAIN ann_index
        IN /\ f1.chunk_id # f2.chunk_id
           /\ Kept(f1)
           /\ Kept(f2)
           /\ Cardinality(DOMAIN chunks) = 2

(***************************************************************************)
(* C14  flush is exclusive of writers: the snapshot on disk is a state of  *)
(* the store between whole operations (every chunk id a persisted document *)
(* lists is a persisted chunk), and the dirty flag is never clear while a  *)
(* chunk whose ingest_document has returned is missing from the snapshot.  *)
(***************************************************************************)
FlushExclusiveOfWriters ==
    probe.fn = "threads" =>
        /\ disk # NoFile =>
              \A d \in disk.documents : \A i \in 1..Len(d.chunk_ids) :
                 \E c \in disk.chunks : c.chunk_id = d.chunk_ids[i]
        /\ \A t \in Threads :
              (IngestDocumentReturned(t) /\ ~dirty) =>
                 /\ disk # NoFile
                 /\ \E c \in disk.chunks : c.chunk_id = probe.frames[t].chunk_id[1]

(***************************************************************************)
(* C19  A query with no time hint and no period or century match that      *)
(* names explicit years, routed to a domain whose hard_mode_for contains   *)
(* explicit_year, gets mode HARD whatever the signals and the default      *)
(* mode: with one year (window_kind "decade") and with several             *)
(* (window_kind "year_range").                                             *)
(***************************************************************************)
ExplicitYearForcesHard ==
    (probe.fn = "route" /\ probe.done) =>
        LET router == TemporalRouter(probe.policy_cfg, probe.axis_cfg)
            policy == policy_for(router, probe.out.domain)
        IN (/\ probe.time_hint = << >>
            /\ Len(YearsIn(probe.query)) > 0
            /\ Len(CenturiesIn(probe.query)) = 0
            /\ \A token \in DOMAIN router.period_windows : ~LowerContains(probe.query, token)
            /\ "explicit_year" \in Get(policy, "hard_mode_for", {}))
           => /\ probe.out.mode = "HARD"
              /\ probe.out.window_kind =
                    IF Len(YearsIn(probe.query)) = 1 THEN "decade" ELSE "year_range"

(***************************************************************************)
(* C20  When no window-kind trigger applies, route returns HARD if         *)
(* contradiction is at or above its threshold or low_confidence is at or   *)
(* above its threshold, and the domain's default mode otherwise, falling   *)
(* back to the generic policy's default.                                   *)
(***************************************************************************)
SignalSnapping ==
    (probe.fn = "route" /\ probe.done) =>
        LET router == TemporalRouter(probe.policy_cfg, probe.axis_cfg)
            sets == Get(probe.policy_cfg, "policy_sets", EmptyMap)
            generic == Get(sets, "generic", EmptyMap)
            policy == Get(sets, probe.out.domain, generic)
            hard_modes == Get(policy, "hard_mode_for", {})
            kind == probe.out.window_kind
            triggered ==
                \/ kind \in {"year", "decade", "year_range"} /\ "explicit_year" \in hard_modes
                \/ kind = "century" /\ "explicit_century" \in hard_modes
                \/ kind = "period" /\ "explicit_period" \in hard_modes
            given == IF probe.signals = << >> THEN EmptyMap ELSE probe.signals[1]
            snap == Get(Get(probe.axis_cfg, "snap_rules", EmptyMap), "INTELLIGENT_to_HARD", EmptyMap)
            snapped ==
                \/ /\ "contradiction" \in DOMAIN given
                   /\ RLe(Get(snap, "contradiction", Rat(1, 2)), given["contradiction"])
                \/ /\ "low_confidence" \in DOMAIN given
                   /\ RLe(Get(snap, "low_confidence", Rat(35, 100)), given["low_confidence"])
            default_mode == Get(policy, "time_mode_default",
                                Get(generic, "time_mode_default", "INTELLIGENT"))
        IN ~triggered => probe.out.mode = IF snapped THEN "HARD" ELSE default_mode

\* contradiction exactly at the threshold on a query without a trigger:
\* HARD in a domain whose default is INTELLIGENT
SignalSnappingWitness ==
    /\ probe.fn = "route"
    /\ probe.done
    /\ probe.policy_cfg = PolicyCfg
    /\ probe.query = "Who is the CEO today?"
    /\ probe.signals = <<[k \in {"contradiction"} |-> Rat(1, 2)]>>
    /\ probe.axis_cfg # EmptyMap
    /\ Get(Get(probe.axis_cfg, "snap_rules", EmptyMap).INTELLIGENT_to_HARD, "contradiction", Zero) = Rat(1, 2)
    /\ probe.out.mode = "HARD"

(***************************************************************************)
(* C15  Request isolation: the router_metrics and the time_window_kind     *)
(* that answer() reports in controller_stats are those of the request's    *)
(* own routing decision, even when another request calls route() in        *)
(* between.                                                                *)
(***************************************************************************)
RequestIsolation ==
    probe.fn = "answers" =>
        \A t \in Threads :
            probe.frames[t].pc = "done" =>
                LET decision == probe.frames[t].decision[1]
                    stats == probe.frames[t].controller_stats[1]
                IN /\ stats.time_window_kind = decision.window_kind
                   /\ stats.router_metrics = observability_of(decision)

(***************************************************************************)
(* C16  Dirty-flag persistence (one thread, persist path configured, no    *)
(* I/O failure): whenever the dirty flag is false the snapshot on disk     *)
(* holds exactly the documents and chunks in memory, an absent file        *)
(* counting as the empty store; ingest_document and                        *)
(* upsert_document_metadata set the flag; flush writes only when the flag  *)
(* is set and then clears it.                                              *)
(***************************************************************************)
CleanMeansPersisted ==
    ~dirty => (disk = NoFile \/ disk = SnapshotOf(chunks, documents))

CleanAbsentMeansEmpty == (~dirty /\ disk = NoFile) => (chunks = EmptyMap /\ documents = EmptyMap)

FlagSteps ==
    /\ last_op'.op \in {"ingest", "upsert"} => dirty'
    /\ last_op'.op = "flush" =>
          /\ ~dirty'
          /\ ~dirty => disk' = disk
          /\ dirty => disk' = SnapshotOf(chunks, documents)

DirtyFlagPersistence ==
    /\ [](CleanMeansPersisted /\ CleanAbsentMeansEmpty)
    /\ [][FlagSteps]_vars

\* two ingests and then one flush: both chunks are on disk and the flag is
\* clear
DirtyFlagWitness ==
    /\ last_op.op = "flush"
    /\ last_op.wrote
    /\ Cardinality(DOMAIN chunks) = 2
    /\ ~dirty
    /\ disk # NoFile
    /\ Cardinality(disk.chunks) = 2

(***************************************************************************)
(* C17  Capability failure never aborts retrieval: whatever the state of   *)
(* the cross-encoder and of the judge backend, retrieve hands its caller a *)
(* result list and never an exception.                                     *)
(***************************************************************************)
CapabilityFailureContinues ==
    probe.fn = "retrieve_call" =>
        /\ ~probe.out.raised
        /\ Len(probe.out.value.results) <= probe.stored

(***************************************************************************)
(* C18  Persistence failures never propagate: a startup on a snapshot that *)
(* cannot be read or parsed raises nothing and gives an empty store; an    *)
(* ingest request whose snapshot write fails raises nothing, returns its   *)
(* chunk id, keeps the chunk in memory and leaves the dirty flag set.      *)
(***************************************************************************)
PersistenceFailuresContained ==
    /\ last_op.op = "startup" =>
          /\ ~last_op.raised
          /\ last_op.snapshot = Corrupt => chunks = EmptyMap /\ documents = EmptyMap
    /\ last_op.op = "ingest_request" =>
          /\ ~last_op.raised
          /\ last_op.returned = <<last_op.stored>>
          /\ last_op.stored \in DOMAIN chunks
          /\ disk # SnapshotOf(chunks, documents) => dirty

(***************************************************************************)
(* C21  Router window priority: route takes the window and its kind from   *)
(* the first source present, in the order time hint, configured period     *)
(* keyword in the query, century pattern (padded), year tokens (one year:  *)
(* "decade" [year - pad, year + pad + 1); several: "year_range" [smallest, *)
(* largest + 1)), and otherwise "broad" [0001-01-01, 2100-01-01).          *)
(***************************************************************************)
HasHint == probe.time_hint # << >> /\ probe.time_hint[1] # EmptyMap
PeriodsOfQuery ==
    {token \in DOMAIN Get(probe.axis_cfg, "fuzzy_period_map", EmptyMap) :
        LowerContains(probe.query, token)}
PadOf(key, default) == Get(Get(probe.axis_cfg, "time_window_defaults", EmptyMap), key, default)
YearSpan(first, last) == [start |-> Jan1(first), end |-> Jan1(last)]

HintWins ==
    HasHint =>
        /\ probe.out.window_kind = "hint"
        /\ LET h == probe.time_hint[1]
           IN IF h.operator = "AS_OF"
              THEN probe.out.window = [start |-> h.at, end |-> h.at + 1]
              ELSE probe.out.window = [start |-> Min2(h.from, h.to), end |-> Max2(h.from, h.to)]
PeriodWins ==
    (~HasHint /\ PeriodsOfQuery # {}) =>
        /\ probe.out.window_kind = "period"
        /\ \E token \in PeriodsOfQuery :
              LET bounds == probe.axis_cfg.fuzzy_period_map[token]
              IN probe.out.window = [start |-> bounds.from, end |-> bounds.to]
CenturyWins ==
    (~HasHint /\ PeriodsOfQuery = {} /\ CenturiesIn(probe.query) # << >>) =>
        /\ probe.out.window_kind = "century"
        /\ LET c == CenturiesIn(probe.query)[1]
               pad == PadOf("century_padding_years", 50)
           IN probe.out.window = YearSpan((c - 1) * 100 + 1 - pad, c * 100 + pad + 1)
YearsWin ==
    (~HasHint /\ PeriodsOfQuery = {} /\ CenturiesIn(probe.query) = << >>
        /\ YearsIn(probe.query) # << >>) =>
        LET years == YearsIn(probe.query)
            pad == PadOf("decade_padding_years", 5)
        IN IF Len(years) = 1
           THEN /\ probe.out.window_kind = "decade"
                /\ probe.out.window = YearSpan(years[1] - pad, years[1] + pad + 1)
           ELSE /\ probe.out.window_kind = "year_range"
                /\ probe.out.window = YearSpan(years[1], years[Len(years)] + 1)
BroadOtherwise ==
    (~HasHint /\ PeriodsOfQuery = {} /\ CenturiesIn(probe.query) = << >>
        /\ YearsIn(probe.query) = << >>) =>
        /\ probe.out.window_kind = "broad"
        /\ probe.out.window = YearSpan(1, 2100)

RouterWindowPriority ==
    (probe.fn = "route" /\ probe.done) =>
        HintWins /\ PeriodWins /\ CenturyWins /\ YearsWin /\ BroadOtherwise

\* a query naming a period, a century and a year, under an axis
\* configuration with and without the period map
RouterWindowPriorityWitness ==
    /\ probe.fn = "route"
    /\ probe.done
    /\ probe.time_hint = << >>
    /\ probe.query = "19th century GDP 1870"
    /\ probe.axis_cfg = AxisCfg
    /\ probe.out.window_kind = "century"
    /\ probe.out.window = [start |-> Jan1(1751), end |-> Jan1(1951)]

(***************************************************************************)
(* C22  purge_system resets everything from any prior state: when it       *)
(* returns list_chunks() is empty, there are no documents and no ANN       *)
(* entries, the counter is 1, every cache key reads as absent, no          *)
(* idempotency key is registered and no snapshot file remains; a restart   *)
(* that follows loads an empty store.                                      *)
(***************************************************************************)
PurgedState ==
    last_op.op = "purge" =>
        /\ list_chunks(chunks) = << >>
        /\ chunks = EmptyMap
        /\ documents = EmptyMap
        /\ ann_index = EmptyMap
        /\ counter = 1
        /\ \A key \in CacheKeys : cache_get(probe.cache, key) = << >>
        /\ probe.state.policy_applied_keys = {}
        /\ disk = NoFile
RestartAfterPurge ==
    (last_op.op = "purge" /\ last_op'.op = "load") =>
        (chunks' = EmptyMap /\ documents' = EmptyMap /\ ann_index' = EmptyMap)
EdgeGap(c, q) ==
    LET gaps == {Abs(x - y) : x \in {c.start, c.end}, y \in {q.start, q.end}}
    IN CHOOSE g \in gaps : \A o \in gaps : g <= o
Disjoint(c, q) == c.end <= q.start \/ q.end <= c.start
DecayOf(c, q, weight) ==
    /\ ~Disjoint(c, q) /\ c.start < c.end /\ q.start < q.end => weight = One
    /\ Disjoint(c, q) => weight = Rat(1, 1 + EdgeGap(c, q))
    /\ RLt(Zero, weight) /\ RLe(weight, One)
PlainWorldRecord ==
    LET valid == Get(probe.payload, "valid", EmptyMap)
    IN /\ probe.fn = "ingest_structured"
       /\ probe.done
       /\ is_world_economy(probe.payload)
       /\ DOMAIN valid \cap {"granularity", "sigma_days", "sigma", "to"} = {}
FacetDefaultsKept ==
    LET supplied == Get(probe.payload, "facets", EmptyMap)
    IN /\ \A k \in DOMAIN supplied : probe.out.facets[k] = supplied[k]
       /\ "domain" \notin DOMAIN supplied => probe.out.facets.domain = "world-economy"
       /\ "tenant" \notin DOMAIN supplied => probe.out.facets.tenant = "lab"
YearlyDefaults ==
    /\ probe.out.time_granularity = "year"
    /\ probe.out.time_sigma_days = 90
YearlyWindow ==
    LET year == YearOf(probe.out.valid_window.start)
    IN probe.out.valid_window = [start |-> Jan1(year), end |-> Jan1(year + 1)]
WorldEconomyIngestDefaults ==
    PlainWorldRecord =>
        FacetDefaultsKept /\ YearlyDefaults /\ YearlyWindow /\ probe.out.units # << >>

(***************************************************************************)
(* C25  retrieve returns min(top_k, rerank_limit, candidates surviving the *)
(* temporal filter) results, hence at most top_k; no chunk_id occurs       *)
(* twice; the list is ordered by non-increasing final_score as it stands   *)
(* after the region-diversity penalty; every final_score is in [0,1].      *)
(***************************************************************************)
RetrieveResultList ==
    probe.fn = "retrieve" =>
        LET rs == probe.out.results
            survivors == {id \in DOMAIN chunks :
                             probe.mode = "HARD" =>
                                 /\ chunks[id].valid_window.start < probe.window.end
                                 /\ probe.window.start < chunks[id].valid_window.end}
            rerank_limit == hybrid_ks(probe.out.domain, probe.top_k)[3]
        IN /\ Len(rs) = Min2(probe.top_k, Min2(rerank_limit, Cardinality(survivors)))
           /\ Len(rs) <= probe.top_k
           /\ \A i, j \in 1..Len(rs) : rs[i].chunk_id = rs[j].chunk_id => i = j
           /\ \A i, j \in 1..Len(rs) : i < j => RLe(rs[j].final_score, rs[i].final_score)
           /\ \A i \in 1..Len(rs) : RLe(Zero, rs[i].final_score) /\ RLe(rs[i].final_score, One)

\* two stored chunks pass the filter and top_k = 1 keeps the better one
RetrieveResultListWitness ==
    /\ probe.fn = "retrieve"
    /\ probe.mode = "INTELLIGENT"
    /\ probe.top_k = 1
    /\ Cardinality(DOMAIN chunks) = 2
    /\ Len(probe.out.results) = 1

(***************************************************************************)
(* C26  Rank-score blending: before the units bias a candidate's rank      *)
(* score is the average of its cross-encoder score and its judge score     *)
(* when both exist, the one that exists when only one does, and its        *)
(* lexical + vector score when neither does.                               *)
(***************************************************************************)
CeScoreOf(text) ==
    IF probe.caps.ce = "stub"
    THEN LET tokens == TextTokens(text)
             overlap == Cardinality({k \in 1..Len(tokens) : tokens[k] \in QueryTokens(probe.query)})
         IN RMin(One, Rat(overlap, 10))
    ELSE probe.logistic
JudgeScoreOf(r, ce) ==
    IF probe.caps.judge = "light"
    THEN RMin(One, RAdd(RAdd(RMul(ce, Rat(1, 2)), RMul(r.authority, Rat(3, 10))),
                        RMul(r.time_weight, Rat(1, 5))))
    ELSE ce
RankScoreBlending ==
    (probe.fn = "retrieve_call" /\ ~probe.out.raised) =>
        \A i \in 1..Len(probe.out.value.results) :
            LET r == probe.out.value.results[i]
                ce == CeScoreOf(r.text)
                blended == IF probe.judge_enabled
                           THEN RDiv(RAdd(ce, JudgeScoreOf(r, ce)), Rat(2, 1))
                           ELSE ce
            IN r.rerank = RMin(One, RAdd(blended, units_bias(chunks[r.chunk_id].units)))

\* both rerankers score two candidates in light mode
RankScoreBlendingWitness ==
    /\ probe.fn = "retrieve_call"
    /\ ~probe.out.raised
    /\ probe.judge_enabled
    /\ probe.caps = [ce |-> "stub", judge |-> "light"]
    /\ Len(probe.out.value.results) = 2
    /\ \E i \in 1..2 : probe.out.value.results[i].rerank # CeScoreOf(probe.out.value.results[i].text)

(***************************************************************************)
(* C27  Policy idempotency: an authorized apply_policy whose               *)
(* idempotency_key was already applied changes neither the policy          *)
(* configuration nor policy_version and is answered accepted = False,      *)
(* whatever version it carries; accepted = True is returned only when the  *)
(* stored policy_version is the requested one and the changes are merged.  *)
(***************************************************************************)
PolicyIdempotency ==
    (probe.fn = "policy" /\ probe.request # EmptyMap /\ probe.authorization = ADMIN_TOKEN) =>
        /\ probe.request.idempotency_key \in probe.before.policy_applied_keys =>
              /\ probe.state.policy_cfg = probe.before.policy_cfg
              /\ probe.state.policy_version = probe.before.policy_version
              /\ ~probe.result.response.accepted
        /\ probe.result.response.accepted =>
              /\ probe.state.policy_version = probe.request.policy_version
              /\ \A k \in DOMAIN probe.request.changes :
                    probe.state.policy_cfg[k] = probe.request.changes[k]

(***************************************************************************)
(* C30  Policy consistency across components: a request served after an    *)
(* accepted apply_policy is routed, retrieved and planned under the        *)
(* updated configuration: the mode is the one a router on the current      *)
(* policy sets picks, the retrieval weights are those of the current       *)
(* policy sets, and the plan is the one the current dhqc thresholds give.  *)
(***************************************************************************)
PolicyConsistency ==
    (probe.fn = "policy" /\ probe.served # EmptyMap) =>
        LET current == probe.state.policy_cfg
            decision == route(TemporalRouter(current, AxisCfg), probe.served.query, << >>, << >>)
        IN /\ probe.served.mode = decision.mode
           /\ probe.served.weights_used = WeightsFor(current, decision.domain)
           /\ probe.served.plan =
                 plan(ControllerOf(Get(current, "dhqc", EmptyMap)), decision.mode,
                      probe.served.coverage)

(***************************************************************************)
(* C28  Store consistency (single-threaded): after any sequence of         *)
(* ingest_document, upsert_document_metadata, flush and clear from an      *)
(* empty store, the chunk map, the union of the documents' chunk_ids lists *)
(* and the ANN index hold the same set of chunk ids; each chunk id occurs  *)
(* exactly once, in the list of the document its chunk names, and          *)
(* ann_search drops no hit of the index.                                   *)
(***************************************************************************)
ListedIds == UNION {Range(documents[d].chunk_ids) : d \in DOMAIN documents}

Occurrences(id) ==
    {<<d, i>> \in (DOMAIN documents) \X (1..(MaxChunks + 1)) :
        i <= Len(documents[d].chunk_ids) /\ documents[d].chunk_ids[i] = id}

StoreConsistency ==
    /\ DOMAIN chunks = DOMAIN ann_index
    /\ DOMAIN chunks = ListedIds
    /\ \A id \in DOMAIN chunks :
          /\ chunks[id].chunk_id = id
          /\ chunks[id].doc_id \in DOMAIN documents
          /\ Cardinality(Occurrences(id)) = 1
          /\ \A o \in Occurrences(id) : o[1] = chunks[id].doc_id
    /\ \A d \in DOMAIN documents : Len(documents[d].chunk_ids) <= MaxChunks + 1
    /\ \A emb \in Embeddings, k \in {MaxTopK} :
          ann_search(chunks, ann_index, emb, k) = ann_index_search(ann_index, emb, k)

StoreConsistencyWitness ==
    /\ last_op.op = "upsert"
    /\ Cardinality(DOMAIN chunks) = 2
    /\ \E d \in DOMAIN documents : Len(documents[d].chunk_ids) = 2
    /\ \E d \in DOMAIN documents : documents[d].chunk_ids = << >>

(***************************************************************************)
(* C29  Snapshot round trip: a store constructed on the persist path right *)
(* after flush holds the same documents and the same chunks as the store   *)
(* that flushed, an ANN index covering every loaded chunk, a clear dirty   *)
(* flag and a counter whose next chunk id is not among the loaded chunks;  *)
(* a flush of the reloaded store after one metadata-neutral change         *)
(* rewrites the snapshot it was loaded from.                               *)
(***************************************************************************)
ReloadAfterFlush ==
    (last_op.op = "flush" /\ last_op'.op = "load") =>
        /\ chunks' = chunks
        /\ documents' = documents
        /\ DOMAIN ann_index' = DOMAIN chunks'
        /\ \A id \in DOMAIN chunks' : ann_index'[id] = chunks'[id].text
        /\ ~dirty'
        /\ \A d \in DOMAIN documents' \cup DocIds : ChunkIdOf(d, counter') \notin DOMAIN chunks'

ReflushAfterNeutralChange ==
    (last_op.op = "upsert" /\ last_op.reloaded /\ last_op.neutral /\ last_op'.op = "flush") =>
        /\ last_op'.wrote
        /\ disk' = disk

SnapshotRoundTrip == [][ReloadAfterFlush /\ ReflushAfterNeutralChange]_vars

SnapshotRoundTripWitness ==
    /\ last_op.op = "upsert"
    /\ last_op.reloaded
    /\ last_op.neutral
    /\ disk # NoFile
    /\ \E id \in DOMAIN chunks : chunks[id].tx_window # NoWindow
    /\ dirty

====
